---- MODULE Spec2Model ----
(***************************************************************************)
(* A model of the Unreal code analyzer core (src/src/analyzer.ts): the     *)
(* UnrealCodeAnalyzer object, its two configured roots, its two caches and *)
(* its operations, run against small source trees.                         *)
(*                                                                         *)
(* Text is modelled at two levels that are derived from one representation.*)
(* A line of a file is an indentation and a sequence of tokens; its text   *)
(* is the indentation followed by the tokens joined by single blanks       *)
(* (LineText).  The line/identifier searches work on that text, character  *)
(* by character; the class-definition patterns work on the tokens.         *)
(***************************************************************************)
EXTENDS Integers, Sequences, FiniteSets, TLC

\* ------------------------------------------------------------------------
\* Bounds of the model
\* ------------------------------------------------------------------------

\* Number of lines of each of the two large files of the large tree.
BigLines == 160

\* ------------------------------------------------------------------------
\* Characters and strings (a string is a sequence of one-character strings)
\* ------------------------------------------------------------------------

Min(a, b) == IF a < b THEN a ELSE b
Max(a, b) == IF a > b THEN a ELSE b

\* The characters of every token that occurs in the modelled trees.
CharTable ==
     ("class" :> <<"c","l","a","s","s">>)
  @@ ("enum" :> <<"e","n","u","m">>)
  @@ ("public" :> <<"p","u","b","l","i","c">>)
  @@ ("private" :> <<"p","r","i","v","a","t","e">>)
  @@ ("protected" :> <<"p","r","o","t","e","c","t","e","d">>)
  @@ ("final" :> <<"f","i","n","a","l">>)
  @@ ("float" :> <<"f","l","o","a","t">>)
  @@ ("uint8" :> <<"u","i","n","t","8">>)
  @@ (":" :> <<":">>)
  @@ ("::" :> <<":",":">>)
  @@ ("{" :> <<"{">>)
  @@ ("}" :> <<"}">>)
  @@ (";" :> <<";">>)
  @@ ("," :> <<",">>)
  @@ ("*" :> <<"*">>)
  @@ ("(" :> <<"(">>)
  @@ (")" :> <<")">>)
  @@ ("//" :> <<"/","/">>)
  @@ ("/*" :> <<"/","*">>)
  @@ ("*/" :> <<"*","/">>)
  @@ ("UCLASS()" :> <<"U","C","L","A","S","S","(",")">>)
  @@ ("ENGINE_API" :> <<"E","N","G","I","N","E","_","A","P","I">>)
  @@ ("AFoo" :> <<"A","F","o","o">>)
  @@ ("AFooBar" :> <<"A","F","o","o","B","a","r">>)
  @@ ("AActor" :> <<"A","A","c","t","o","r">>)
  @@ ("UObject" :> <<"U","O","b","j","e","c","t">>)
  @@ ("IInterfaceX" :> <<"I","I","n","t","e","r","f","a","c","e","X">>)
  @@ ("IInterface" :> <<"I","I","n","t","e","r","f","a","c","e">>)
  @@ ("IntBox" :> <<"I","n","t","B","o","x">>)
  @@ ("Foo" :> <<"F","o","o">>)
  @@ ("foo" :> <<"f","o","o">>)
  @@ ("x" :> <<"x">>)
  @@ ("Class" :> <<"C","l","a","s","s">>)
  @@ ("Object" :> <<"O","b","j","e","c","t">>)
  @@ ("Actor" :> <<"A","c","t","o","r">>)
  @@ ("Structure" :> <<"S","t","r","u","c","t","u","r","e">>)
  @@ ("Component" :> <<"C","o","m","p","o","n","e","n","t">>)
  @@ ("Miscellaneous" :> <<"M","i","s","c","e","l","l","a","n","e","o","u","s">>)
  @@ ("Core" :> <<"C","o","r","e">>)
  @@ ("Engine" :> <<"E","n","g","i","n","e">>)
  @@ ("actor" :> <<"a","c","t","o","r">>)
  @@ ("core" :> <<"c","o","r","e">>)
  @@ ("o" :> <<"o">>)
  @@ ("&" :> <<"&">>)
  @@ ("void" :> <<"v","o","i","d">>)
  @@ ("virtual" :> <<"v","i","r","t","u","a","l">>)
  @@ ("static" :> <<"s","t","a","t","i","c">>)
  @@ ("override" :> <<"o","v","e","r","r","i","d","e">>)
  @@ ("typedef" :> <<"t","y","p","e","d","e","f">>)
  @@ ("DECLARE_" :> <<"D","E","C","L","A","R","E","_">>)
  @@ ("#define" :> <<"#","d","e","f","i","n","e">>)
  @@ ("UFUNCTION()" :> <<"U","F","U","N","C","T","I","O","N","(",")">>)
  @@ ("UPROPERTY()" :> <<"U","P","R","O","P","E","R","T","Y","(",")">>)
  @@ ("UPROPERTY" :> <<"U","P","R","O","P","E","R","T","Y">>)
  @@ ("CreateDefaultSubobject" :> <<"C","r","e","a","t","e","D","e","f","a","u","l","t","S","u","b","o","b","j","e","c","t">>)
  @@ ("<" :> <<"<">>)
  @@ (">" :> <<">">>)
  @@ ("=" :> <<"=">>)
  @@ (".Add" :> <<".","A","d","d">>)
  @@ ("Dynamic" :> <<"D","y","n","a","m","i","c">>)
  @@ ("Unique" :> <<"U","n","i","q","u","e">>)
  @@ ("Raw" :> <<"R","a","w">>)
  @@ ("Lambda" :> <<"L","a","m","b","d","a">>)
  @@ (".AddDynamic" :> <<".","A","d","d","D","y","n","a","m","i","c">>)
  @@ ("BindUFunction" :> <<"B","i","n","d","U","F","u","n","c","t","i","o","n">>)
  @@ ("Category" :> <<"C","a","t","e","g","o","r","y">>)
  @@ ("BlueprintReadWrite" :> <<"B","l","u","e","p","r","i","n","t","R","e","a","d","W","r","i","t","e">>)
  @@ ("Meta" :> <<"M","e","t","a">>)
  @@ ("RootComponent" :> <<"R","o","o","t","C","o","m","p","o","n","e","n","t">>)
  @@ ("BeginPlay" :> <<"B","e","g","i","n","P","l","a","y">>)
  @@ ("beginplay" :> <<"b","e","g","i","n","p","l","a","y">>)
  @@ ("endplay" :> <<"e","n","d","p","l","a","y">>)
  @@ ("OnHit" :> <<"O","n","H","i","t">>)
  @@ ("" :> <<>>)

Chars(s) == CharTable[s]

\* String.prototype.toLowerCase on one character (the letters that occur).
LowerMap ==
  ("A" :> "a") @@ ("B" :> "b") @@ ("C" :> "c") @@ ("E" :> "e") @@ ("F" :> "f")
  @@ ("G" :> "g") @@ ("I" :> "i") @@ ("L" :> "l") @@ ("N" :> "n") @@ ("O" :> "o")
  @@ ("P" :> "p") @@ ("S" :> "s") @@ ("U" :> "u") @@ ("X" :> "x") @@ ("M" :> "m")
  @@ ("D" :> "d") @@ ("R" :> "r") @@ ("T" :> "t") @@ ("Y" :> "y")
  @@ ("H" :> "h") @@ ("W" :> "w")

ToLower(c) == IF c \in DOMAIN LowerMap THEN LowerMap[c] ELSE c

LowerStr(s) == [i \in 1..Len(s) |-> ToLower(s[i])]

\* \w of the regular expressions: letters, digits and the underscore.
NonWordChars ==
  {" ", ":", "{", "}", ";", ",", "*", "/", "(", ")", "\n", "&", "#", "<", ">", "=", "."}

IsWordChar(c) == c \notin NonWordChars

StartsWith(s, p) == Len(p) <= Len(s) /\ SubSeq(s, 1, Len(p)) = p

\* p occurs in s at the 0-based index i.
OccursAt(s, p, i) == i >= 0 /\ i + Len(p) <= Len(s) /\ SubSeq(s, i + 1, i + Len(p)) = p

\* String.prototype.indexOf: the 0-based index of the first occurrence, or -1.
IndexOf(s, p) ==
  LET hits == {i \in 0..Len(s) : OccursAt(s, p, i)}
  IN IF hits = {} THEN -1 ELSE CHOOSE i \in hits : \A j \in hits : i <= j

\* String.prototype.trim (the only white space of the model is the blank).
RECURSIVE TrimLeft(_)
TrimLeft(s) == IF s # <<>> /\ Head(s) = " " THEN TrimLeft(Tail(s)) ELSE s

RECURSIVE TrimRight(_)
TrimRight(s) ==
  IF s # <<>> /\ s[Len(s)] = " " THEN TrimRight(SubSeq(s, 1, Len(s) - 1)) ELSE s

Trim(s) == TrimRight(TrimLeft(s))

\* Array.prototype.slice(start, end) with the clipping JavaScript applies:
\* a negative index counts from the end, an index past the end is the end.
SliceIndex(n, k) == IF k < 0 THEN Max(n + k, 0) ELSE Min(k, n)

Slice(s, start, end) == SubSeq(s, SliceIndex(Len(s), start) + 1, SliceIndex(Len(s), end))

\* String.prototype.includes
Includes(s, p) == IndexOf(s, p) >= 0

\* Array.prototype.join(sep) over strings.
RECURSIVE JoinWith(_, _)
JoinWith(ss, sep) ==
  IF ss = <<>> THEN <<>>
  ELSE IF Len(ss) = 1 THEN ss[1]
  ELSE ss[1] \o sep \o JoinWith(Tail(ss), sep)

JoinLines(ss) == JoinWith(ss, <<"\n">>)

\* ------------------------------------------------------------------------
\* Source trees
\* ------------------------------------------------------------------------

Ln(ind, toks) == [ind |-> ind, toks |-> toks]

Fl(dir, base, ext, readable, lines) ==
  [dir |-> dir, base |-> base, ext |-> ext, readable |-> readable, lines |-> lines]

RECURSIVE JoinToks(_)
JoinToks(toks) ==
  IF toks = <<>> THEN <<>>
  ELSE IF Len(toks) = 1 THEN Chars(toks[1])
  ELSE Chars(toks[1]) \o <<" ">> \o JoinToks(Tail(toks))

\* The text of one element of content.split('\n').
LineText(l) == [i \in 1..l.ind |-> " "] \o JoinToks(l.toks)

\* Tree 1: a custom project under proj and an engine under ue/Engine.
Tree1 == <<
  Fl(<<"proj","Source">>, "Enums", "h", TRUE, <<
     Ln(0, <<"enum","class","AFoo",":","uint8","{">>),
     Ln(2, <<"//","AFoo","x">>),
     Ln(0, <<"}",";">>) >>),
  Fl(<<"proj","Source">>, "AFoo", "h", TRUE, <<
     Ln(0, <<"//","AFoo","x">>),
     Ln(0, <<"class","AFoo","final",":","public","AActor",",","public","IInterfaceX","{">>),
     Ln(2, <<"AFoo","*","Foo",";">>),
     Ln(2, <<"/*","Foo","x">>),
     Ln(4, <<"Foo","x","*/">>),
     Ln(0, <<"}",";">>) >>),
  Fl(<<"proj","Intermediate">>, "AFoo", "h", TRUE, <<
     Ln(0, <<"class","AFoo",":","public","UObject","{">>) >>),
  Fl(<<"proj","Source">>, "AFoo", "generated.h", TRUE, <<
     Ln(0, <<"class","AFoo",":","public","IntBox","{">>) >>),
  Fl(<<"ue","Engine","Source","Runtime","Core">>, "Locked", "h", FALSE, <<
     Ln(0, <<"class","AFoo",":","public","UObject","{">>) >>),
  Fl(<<"ue","Engine","Source","Runtime","Core">>, "AFoo", "h", TRUE, <<
     Ln(0, <<"UCLASS()">>),
     Ln(0, <<"class","ENGINE_API","AFoo",":","public","AActor">>),
     Ln(0, <<"{">>),
     Ln(0, <<"}",";">>) >>),
  Fl(<<"ue","Engine","Source","Runtime","Core">>, "AActor", "h", TRUE, <<
     Ln(0, <<"UCLASS()","class","ENGINE_API","AActor",":","public","UObject",",","public","IInterface">>),
     Ln(0, <<"{">>),
     Ln(2, <<"UObject","*","x",";">>),
     Ln(0, <<"}",";">>) >>),
  Fl(<<"ue","Engine","Source","Runtime","Core">>, "AFoo", "cpp", TRUE, <<
     Ln(0, <<"AFoo","::","AFoo","(",")">>),
     Ln(0, <<"{","}">>) >>),
  Fl(<<"ue","Engine","Shaders">>, "Foo", "usf", TRUE, <<
     Ln(0, <<"//","Foo","x">>),
     Ln(0, <<"float","Foo",";">>) >>)
>>

\* Tree 2: the custom project only forward-declares AFoo, the engine has the
\* Source layout (no Engine directory) and a malformed inheritance cycle.
Tree2 == <<
  Fl(<<"ue","Source","Runtime","Engine">>, "AActor", "h", TRUE, <<
     Ln(0, <<"class","AActor",":","public","AFoo","{">>),
     Ln(0, <<"}",";">>) >>),
  Fl(<<"ue","Source","Runtime","Engine">>, "AFoo", "h", TRUE, <<
     Ln(0, <<"class","AFoo",":","public","AActor",",","public","IInterfaceX">>),
     Ln(0, <<"{","}",";">>) >>),
  Fl(<<"proj","Source">>, "Util", "h", TRUE, <<
     Ln(0, <<"class","AFoo",";">>),
     Ln(0, <<"class","AFooBar",":","public","UObject","{">>),
     Ln(2, <<"AFoo","*","x",";">>),
     Ln(0, <<"}",";">>) >>),
  Fl(<<"proj","Source">>, "Main", "cpp", TRUE, <<
     Ln(0, <<"//","foo","x">>),
     Ln(0, <<"AFooBar","Foo",";">>) >>)
>>

\* Tree 3: two large files, for the result cap of the searches.
BigLine(i) ==
  IF i % 3 = 0 THEN Ln(2, <<"//","Foo","x">>)
  ELSE IF i % 3 = 1 THEN Ln(0, <<"AFoo","Foo",";">>)
  ELSE Ln(4, <<"x",";">>)

Tree3 == <<
  Fl(<<"proj","Source">>, "Big", "h", TRUE, [i \in 1..BigLines |-> BigLine(i)]),
  Fl(<<"ue","Engine","Source">>, "Big", "cpp", TRUE, [i \in 1..BigLines |-> BigLine(i + 1)]),
  Fl(<<"ue","Engine","Source">>, "UObject", "h", TRUE, <<
     Ln(0, <<"class","UObject","{">>),
     Ln(0, <<"}",";">>) >>)
>>

\* Tree 4: an engine under ue with the RenderCore module, and a project.
Tree4 == <<
  Fl(<<"ue","Engine","Source","Runtime","RenderCore","Public">>, "RenderCore", "h", TRUE, <<
     Ln(0, <<"class","ENGINE_API","AFoo",":","public","UObject","{">>),
     Ln(0, <<"}",";">>),
     Ln(0, <<"class","AFooBar","final">>),
     Ln(2, <<":","public","AFoo","{","}",";">>),
     Ln(0, <<"class","AActor",";">>),
     Ln(0, <<"enum","class","Foo",":","uint8","{","}",";">>) >>),
  Fl(<<"ue","Engine","Source","Runtime","RenderCore","Private">>, "Locked", "h", FALSE, <<
     Ln(0, <<"class","IntBox",":","public","UObject","{","}",";">>) >>),
  Fl(<<"ue","Engine","Source","Runtime","RenderCore","Private">>, "RenderCore", "cpp", TRUE, <<
     Ln(0, <<"class","UObject",":","public","AActor","{","}",";">>) >>),
  Fl(<<"ue","Engine","Source","Runtime","RenderCore","Intermediate">>, "RenderCore", "generated.h", TRUE, <<
     Ln(0, <<"class","AActor",":","public","UObject","{","}",";">>) >>),
  Fl(<<"proj","Source">>, "AFoo", "h", TRUE, <<
     Ln(0, <<"class","AFoo",":","public","AActor","{","}",";">>) >>)
>>

\* Tree 5: three classes of two categories in two engine modules and a
\* custom project.
Tree5 == <<
  Fl(<<"ue","Engine","Source","Runtime","Core">>, "UObject", "h", TRUE, <<
     Ln(0, <<"class","ENGINE_API","UObject","{">>),
     Ln(0, <<"}",";">>) >>),
  Fl(<<"ue","Engine","Source","Runtime","Engine">>, "AActor", "h", TRUE, <<
     Ln(0, <<"class","ENGINE_API","AActor",":","public","UObject","{">>),
     Ln(0, <<"}",";">>) >>),
  Fl(<<"proj","Source">>, "AFoo", "h", TRUE, <<
     Ln(0, <<"class","AFoo",":","public","AActor","{">>),
     Ln(0, <<"}",";">>) >>)
>>

Trees == <<Tree1, Tree2, Tree3, Tree4, Tree5>>

\* The trees the class operations are explored on, and those of the searches.
SmallTrees == {1, 2}
SearchTrees == {1, 3}
SubsystemTrees == {1, 4}
FilterTrees == {2, 5}

FileIds(t) == 1..Len(Trees[t])

\* The absolute path of a file.
PathOf(f) == [dir |-> f.dir, base |-> f.base, ext |-> f.ext]

IsPrefix(p, s) == Len(p) <= Len(s) /\ SubSeq(s, 1, Len(p)) = p

\* fs.existsSync on a directory path: some file lives at or below it.
ExistsSync(t, d) == \E i \in FileIds(t) : IsPrefix(d, Trees[t][i].dir)

\* path.join(base, rel)
PathJoin(base, rel) == base \o rel

\* The file extensions a glob file pattern selects ("**/" + pattern).
PatternExts(pattern) ==
  CASE pattern = "*.h"       -> {"h", "generated.h"}
    [] pattern = "*.{h,cpp}" -> {"h", "generated.h", "cpp"}
    [] pattern = "*.usf"     -> {"usf"}

\* filePattern.includes('usf') || filePattern.includes('ush')
IsShaderPattern(pattern) == pattern = "*.usf"

\* glob('**/' + pattern, {cwd, absolute: true, ignore}): the files at or
\* below cwd, in the tree's enumeration order, whose name matches; the
\* ignore list always holds '**/Intermediate/**' (matched on the path
\* relative to cwd) and, for class resolution, '**/*.generated.h'.
Glob(t, cwd, pattern, ignoreGenerated) ==
  LET Sel(i) ==
        LET f == Trees[t][i]
            rel == SubSeq(f.dir, Len(cwd) + 1, Len(f.dir))
        IN /\ IsPrefix(cwd, f.dir)
           /\ f.ext \in PatternExts(pattern)
           /\ \A k \in 1..Len(rel) : rel[k] # "Intermediate"
           /\ ~(ignoreGenerated /\ f.ext = "generated.h")
  IN SelectSeq([i \in FileIds(t) |-> i], Sel)

\* ------------------------------------------------------------------------
\* Class Extractor (extractClassInfoWithRegex) and the existence pattern
\* ------------------------------------------------------------------------

\* Case-insensitive comparison of two tokens (the patterns carry the i flag).
\* (each token of the trees lower-cased once)
LowerTable == [tok \in DOMAIN CharTable |-> LowerStr(CharTable[tok])]

EqCI(a, b) == LowerTable[a] = LowerTable[b]

StartsWithCI(tok, name) == StartsWith(LowerTable[tok], LowerTable[name])

\* \w+_API under the i flag: word characters ending in _API, at least one before.
IsApiMacro(tok) ==
  LET c == LowerTable[tok]
  IN /\ Len(c) >= 5
     /\ SubSeq(c, Len(c) - 3, Len(c)) = <<"_", "a", "p", "i">>
     /\ \A k \in 1..Len(c) : IsWordChar(c[k])

TokAt(toks, k) == IF k >= 1 /\ k <= Len(toks) THEN toks[k] ELSE ""

FirstChar(tok) == IF Chars(tok) = <<>> THEN "" ELSE Chars(tok)[1]

\* Capture group 1 of the definition pattern, (?::\s*(.+))?, tried at token k.
InheritanceClause(toks, k) ==
  IF TokAt(toks, k) = ":" THEN SubSeq(toks, k + 1, Len(toks))
  ELSE IF TokAt(toks, k) = "::" THEN <<":">> \o SubSeq(toks, k + 1, Len(toks))
  ELSE <<>>

\* The definition pattern from the class name on: n is the index of the token
\* that has to begin with NAME, ok whether the pattern matched up to there.
DefLineTail(toks, className, n, ok) ==
  [matched     |-> ok,
   inheritance |-> IF ~ok \/ ~EqCI(toks[n], className) THEN <<>>
                   ELSE InheritanceClause(
                          toks, IF EqCI(TokAt(toks, n + 1), "final") THEN n + 2 ELSE n + 1)]

\* The definition pattern from the class keyword (token c) on; n as above.
DefLineHead(toks, className, c, n) ==
  DefLineTail(toks, className, n,
              Len(toks) >= n /\ EqCI(toks[c], "class") /\ StartsWithCI(toks[n], className))

\* The pattern after its optional UCLASS(...) prefix; c is the index of the
\* token that has to be the class keyword.
DefLineFrom(toks, className, c) ==
  DefLineHead(toks, className, c,
              IF IsApiMacro(TokAt(toks, c + 1)) /\ StartsWithCI(TokAt(toks, c + 2), className)
              THEN c + 2 ELSE c + 1)

\* The definition-line pattern of the extractor applied to one line:
\*   ^\s*(?:UCLASS\s*\([^)]*\)\s*)?class\s+(?:\w+_API\s+)?NAME\s*(?:final)?\s*(?::\s*(.+))?
\* Nothing anchors the end of NAME, so a token that merely begins with NAME
\* matches too (then neither "final" nor the clause can follow).  The result
\* is whether the line matches and the tokens of capture group 1.
DefLineMatch(toks, className) ==
  DefLineFrom(toks, className, IF EqCI(TokAt(toks, 1), "UCLASS()") THEN 2 ELSE 1)

\* inheritancePart.replace(/\s*\{.*$/, '').trim(): cut at the first brace.
RECURSIVE CutAtBrace(_)
CutAtBrace(toks) ==
  IF toks = <<>> \/ Head(toks) = "{" THEN <<>>
  ELSE <<Head(toks)>> \o CutAtBrace(Tail(toks))

\* inheritancePart.split(','): the comma-separated entries, as token lists.
RECURSIVE SplitComma(_, _)
SplitComma(toks, cur) ==
  IF toks = <<>> THEN <<cur>>
  ELSE IF Head(toks) = "," THEN <<cur>> \o SplitComma(Tail(toks), <<>>)
  ELSE SplitComma(Tail(toks), Append(cur, Head(toks)))

AccessSpecifiers == {"public", "private", "protected"}

\* The least element of a set of positive numbers, 0 for the empty set.
MinOrZero(S) == IF S = {} THEN 0 ELSE CHOOSE k \in S : \A j \in S : k <= j

\* baseClass.match(/(?:public|private|protected)\s+(\w+)/): the word after
\* the leftmost access specifier, or "" when the entry has none.
BaseName(entry) ==
  TokAt(entry,
        MinOrZero({k + 1 : k \in {j \in 1..Len(entry) - 1 :
                     entry[j] \in AccessSpecifiers /\ IsWordChar(FirstChar(entry[j + 1]))}}))

\* The interface test without its exclusion of names that start with Int.
IsInterfaceNameAnyI(b) == StartsWith(Chars(b), <<"I">>) /\ b # "IInterface"

\* baseName.startsWith('I') && baseName !== 'IInterface' && !baseName.startsWith('Int')
IsInterfaceName(b) ==
  /\ StartsWith(Chars(b), <<"I">>)
  /\ b # "IInterface"
  /\ ~StartsWith(Chars(b), <<"I", "n", "t">>)

BaseNamesOf(entries) ==
  SelectSeq([k \in 1..Len(entries) |-> BaseName(entries[k])], LAMBDA b : b # "")

BaseNames(inheritance) == BaseNamesOf(SplitComma(CutAtBrace(inheritance), <<>>))

\* The null a failed extraction returns, and the unset value of a root.
NullInfo ==
  [name |-> "", file |-> [dir |-> <<>>, base |-> "", ext |-> ""], line |-> -1,
   superclasses |-> <<>>, interfaces |-> <<>>, methods |-> <<>>, properties |-> <<>>]

NoPath == <<>>

\* methods.slice(0, 100) and properties.slice(0, 100)
MEMBER_LIMIT == 100

\* All tokens of a file, in order (white space, line breaks included, only
\* separates tokens).
RECURSIVE ContentToks(_)
ContentToks(lines) ==
  IF lines = <<>> THEN <<>>
  ELSE IF Len(lines) = 1 THEN lines[1].toks
  ELSE ContentToks(SubSeq(lines, 1, Len(lines) \div 2))
       \o ContentToks(SubSeq(lines, Len(lines) \div 2 + 1, Len(lines)))

\* A word of \w+ (the tokens of the model are words, punctuation, or a macro
\* name with its empty parentheses).
IsWord(tok) ==
  /\ Chars(tok) # <<>>
  /\ \A k \in 1..Len(Chars(tok)) : IsWordChar(Chars(tok)[k])

\* \w+_API without the i flag.
IsApiMacroExact(tok) ==
  /\ IsApiMacro(tok)
  /\ OccursAt(Chars(tok), <<"_", "A", "P", "I">>, Len(Chars(tok)) - 4)

\* The macro tokens written with their parentheses, and the word they start
\* with.
CallTokens ==
  ("UCLASS()" :> "UCLASS") @@ ("UFUNCTION()" :> "UFUNCTION") @@ ("UPROPERTY()" :> "UPROPERTY")

\* (\w+(?:<[^>]+>)?(?:\s*[*&])?)\s+ at token k: the number of tokens of the
\* type, 0 when no type starts there.
TypeLength(toks, k) ==
  IF ~IsWord(TokAt(toks, k)) THEN 0
  ELSE IF TokAt(toks, k + 1) \in {"*", "&"} THEN 2
  ELSE 1

\* (\w+)\s*\([^)]*\) at token n: the name, "" when the pattern fails there.
MethodNameAt(toks, n) ==
  IF /\ IsWord(TokAt(toks, n))
     /\ FirstChar(TokAt(toks, n + 1)) = "("
     /\ \E j \in (n + 1)..Len(toks) : Includes(Chars(toks[j]), <<")">>)
  THEN toks[n]
  ELSE IF TokAt(toks, n) \in DOMAIN CallTokens THEN CallTokens[toks[n]]
  ELSE ""

\* The method pattern from the return type on, the type tried at token k.
MethodFrom(toks, k) ==
  [matched    |-> TypeLength(toks, k) > 0
                  /\ MethodNameAt(toks, k + TypeLength(toks, k)) # "",
   returnType |-> SubSeq(toks, k, k + TypeLength(toks, k) - 1),
   name       |-> MethodNameAt(toks, k + TypeLength(toks, k))]

\* The optional groups in front of the return type, in the pattern's order.
OptionalAt(toks, k, group) ==
  CASE group = 1 -> TokAt(toks, k) = "UFUNCTION()"
    [] group = 2 -> TokAt(toks, k) = "virtual"
    [] group = 3 -> TokAt(toks, k) = "static"
    [] group = 4 -> IsApiMacroExact(TokAt(toks, k))

\* line.match(methodPattern), the pattern tried from its optional group
\* `group` on at token k: each group is taken when the rest then matches and
\* left out otherwise.
\*   ^\s*(?:UFUNCTION\s*\([^)]*\)\s*)?(?:virtual\s+)?(?:static\s+)?(?:\w+_API\s+)?
\*   (\w+(?:<[^>]+>)?(?:\s*[*&])?)\s+(\w+)\s*\([^)]*\)\s*(?:const)?\s*(?:override)?
RECURSIVE MethodPatternAt(_, _, _)
MethodPatternAt(toks, k, group) ==
  IF group = 5 THEN MethodFrom(toks, k)
  ELSE IF OptionalAt(toks, k, group) /\ MethodPatternAt(toks, k + 1, group + 1).matched
  THEN MethodPatternAt(toks, k + 1, group + 1)
  ELSE MethodPatternAt(toks, k, group + 1)

\* line.includes('DECLARE_') || line.includes('typedef') || line.includes('#define')
IsSkippedLine(text) ==
  \/ Includes(text, Chars("DECLARE_"))
  \/ Includes(text, Chars("typedef"))
  \/ Includes(text, Chars("#define"))

\* The method pushed for line i whose match is m.
MethodInfoOf(l, i, m) ==
  [name       |-> m.name,
   returnType |-> m.returnType,
   isVirtual  |-> Includes(LineText(l), Chars("virtual")),
   isOverride |-> Includes(LineText(l), Chars("override")),
   line       |-> i]

\* The lines a method is pushed for, and the loop over them.
MethodLinesOf(lines) ==
  SelectSeq([i \in 1..Len(lines) |-> i],
            LAMBDA i : /\ ~IsSkippedLine(LineText(lines[i]))
                       /\ MethodPatternAt(lines[i].toks, 1, 1).matched)

MethodsOf(lines, found) ==
  [k \in 1..Len(found) |->
     MethodInfoOf(lines[found[k]], found[k], MethodPatternAt(lines[found[k]].toks, 1, 1))]
  \o <<>>

\* The number of tokens in front of line i, and the line of the k-th token.
RECURSIVE TokensBefore(_, _)
TokensBefore(lines, i) ==
  IF i <= 1 THEN 0 ELSE Len(lines[i - 1].toks) + TokensBefore(lines, i - 1)

RECURSIVE LineOfToken(_, _, _)
LineOfToken(lines, k, i) ==
  IF i >= Len(lines) \/ k <= Len(lines[i].toks) THEN i
  ELSE LineOfToken(lines, k - Len(lines[i].toks), i + 1)

\* The lines without a token directly in front of line i: ^\s* begins the
\* match at the first of them.
RECURSIVE BlankRun(_, _)
BlankRun(lines, i) ==
  IF i > 1 /\ lines[i - 1].toks = <<>> THEN 1 + BlankRun(lines, i - 1) ELSE 0

\* Line i and the next three lines that hold a token: the lines a match of
\* propPattern that begins on line i can extend over (white space, line
\* breaks included, only separates its at most four tokens).
PropertyWindow(lines, i) ==
  <<i>> \o Slice(SelectSeq([k \in 1..Len(lines) |-> k],
                           LAMBDA k : k > i /\ lines[k].toks # <<>>), 0, 3)

WindowLines(lines, w) == [k \in 1..Len(w) |-> lines[w[k]]] \o <<>>

\* propPattern tried at the first token of line i, `toks` the tokens of the
\* window w of line i:
\*   ^\s*UPROPERTY\s*\([^)]*\)\s*\n?\s*(\w+(?:<[^>]+>)?(?:\s*[*&])?)\s+(\w+)
\* The name is the longest run of word characters the next token starts with.
PropertyIn(lines, w, toks, i) ==
  [matched  |-> /\ toks[1] = "UPROPERTY()"
                /\ TypeLength(toks, 2) > 0
                /\ \/ IsWord(TokAt(toks, 2 + TypeLength(toks, 2)))
                   \/ TokAt(toks, 2 + TypeLength(toks, 2)) \in DOMAIN CallTokens,
   lastLine |-> w[LineOfToken(WindowLines(lines, w), 2 + TypeLength(toks, 2), 1)],
   info     |-> [name |-> IF TokAt(toks, 2 + TypeLength(toks, 2)) \in DOMAIN CallTokens
                          THEN CallTokens[TokAt(toks, 2 + TypeLength(toks, 2))]
                          ELSE TokAt(toks, 2 + TypeLength(toks, 2)),
                type |-> SubSeq(toks, 2, 1 + TypeLength(toks, 2)),
                line |-> i - BlankRun(lines, i)]]

PropertyAt(lines, i) ==
  IF lines[i].toks = <<>> THEN [matched |-> FALSE]
  ELSE PropertyIn(lines, PropertyWindow(lines, i),
                  ContentToks(WindowLines(lines, PropertyWindow(lines, i))), i)

\* The exec loop over the content: a match is found at line i unless an
\* earlier match that was found ends on line i (its name is the word the
\* UPROPERTY token of line i starts with), which moves lastIndex past the
\* start of the line.
RECURSIVE PropertyFoundAt(_, _)
PropertyFoundAt(lines, i) ==
  /\ PropertyAt(lines, i).matched
  /\ \A j \in 1..(i - 1) :
       /\ lines[j].toks # <<>>
       /\ lines[j].toks[1] = "UPROPERTY()"
       /\ i \in {PropertyWindow(lines, j)[k] : k \in 1..Len(PropertyWindow(lines, j))}
       /\ PropertyAt(lines, j).matched
       /\ PropertyAt(lines, j).lastLine = i
       => ~PropertyFoundAt(lines, j)

PropertyLinesOf(lines) ==
  SelectSeq([i \in 1..Len(lines) |-> i], LAMBDA i : PropertyFoundAt(lines, i))

PropertiesOf(lines, found) ==
  [k \in 1..Len(found) |-> PropertyAt(lines, found[k]).info] \o <<>>

\* A record that keeps every method and property found.
ClassInfoOfUncut(f, className, classLine, bases) ==
  [name         |-> className,
   file         |-> PathOf(f),
   line         |-> classLine,
   superclasses |-> SelectSeq(bases, LAMBDA b : ~IsInterfaceName(b)),
   interfaces   |-> SelectSeq(bases, IsInterfaceName),
   methods      |-> MethodsOf(f.lines, MethodLinesOf(f.lines)),
   properties   |-> PropertiesOf(f.lines, PropertyLinesOf(f.lines))]

\* The record the extractor returns for the definition line classLine with the
\* base names `bases` (interfaces and superclasses apart).  Of a method and a
\* property the fields that are constant (parameters, visibility, comments)
\* are left out.
ClassInfoOf(f, className, classLine, bases) ==
  [name         |-> className,
   file         |-> PathOf(f),
   line         |-> classLine,
   superclasses |-> SelectSeq(bases, LAMBDA b : ~IsInterfaceName(b)),
   interfaces   |-> SelectSeq(bases, IsInterfaceName),
   methods      |-> Slice(MethodsOf(f.lines, MethodLinesOf(f.lines)), 0, MEMBER_LIMIT),
   properties   |-> Slice(PropertiesOf(f.lines, PropertyLinesOf(f.lines)), 0, MEMBER_LIMIT)]

\* The extractor once the first matching line is known (0: no line matches).
ExtractAtLine(f, className, classLine) ==
  IF classLine = 0 THEN NullInfo
  ELSE ClassInfoOf(f, className, classLine,
                   BaseNames(DefLineMatch(f.lines[classLine].toks, className).inheritance))

\* extractClassInfoWithRegex(filePath, className): the record, or null when
\* the file cannot be read or no line matches the definition pattern.
ExtractClassInfoWithRegex(f, className) ==
  IF ~f.readable THEN NullInfo
  ELSE ExtractAtLine(f, className,
         MinOrZero({i \in 1..Len(f.lines) : DefLineMatch(f.lines[i].toks, className).matched}))

\* The tail of the existence pattern at token k: \s*(?::|{)
OpensAt(toks, k) == FirstChar(TokAt(toks, k)) \in {":", "{"}

\* NAME\s*(?:final)?\s*(?::|{) at token q
NamedAt(toks, className, q) ==
  /\ EqCI(TokAt(toks, q), className)
  /\ OpensAt(toks, q + 1) \/ (EqCI(TokAt(toks, q + 1), "final") /\ OpensAt(toks, q + 2))

ClassDefPatternIn(toks, className) ==
  \E p \in 1..Len(toks) :
    /\ EqCI(toks[p], "class")
    /\ \/ NamedAt(toks, className, p + 1)
       \/ IsApiMacro(TokAt(toks, p + 1)) /\ NamedAt(toks, className, p + 2)

\* The existence pattern of analyzeClass tested on a file's content:
\*   \bclass\s+(?:\w+_API\s+)?NAME\s*(?:final)?\s*(?::|{)
ClassDefPatternTest(f, className) == ClassDefPatternIn(ContentToks(f.lines), className)

\* ------------------------------------------------------------------------
\* The analyzer: state
\* ------------------------------------------------------------------------

VARIABLES
  tree,         \* the source tree on disk (an index into Trees); never written
  unrealPath,   \* this.unrealPath, NoPath while unset
  customPath,   \* this.customPath, NoPath while unset
  classCache,   \* this.classCache: a Map, as its entries in insertion order
  apiCache,     \* this.apiCache: a Map, as its entries in insertion order
  initialized,  \* this.initialized
  op,           \* the last operation called and its arguments
  result,       \* what it returned or threw
  globs,        \* the directories it enumerated (glob calls), in order
  reads,        \* the files it read (readFileSync calls), in order
  repeat,       \* the last call repeated a class resolution that had just succeeded
  pending,      \* the analyzeClass calls suspended at a glob: class and paths left
  writes        \* the classCache.set calls made by calls that had been suspended

vars ==
  <<tree, unrealPath, customPath, classCache, apiCache, initialized,
    op, result, globs, reads, repeat, pending, writes>>

\* Inputs of the operations.
PathInputs == {<<"proj">>, <<"ue">>, <<"missing">>}
\* Engine paths tried: the paths above and a directory that holds neither an
\* Engine nor a Source directory.
EnginePathInputs == PathInputs \cup {<<"proj", "Source">>}
ClassNames == {"AFoo", "AActor", "UObject"}

\* A thrown Error (its message, with the interpolated part apart) and a
\* returned value.
Err(text, param) == [kind |-> "error", message |-> <<text, param>>]
Ok(v) == [kind |-> "ok", value |-> v]

\* A call that never returns (unbounded recursion).
Diverges == [kind |-> "diverges"]

\* Map.has / Map.get / Map.set on a Map kept as its entries in insertion order.
MapHas(m, k) == \E i \in 1..Len(m) : m[i].key = k
MapGet(m, k) == m[CHOOSE i \in 1..Len(m) : m[i].key = k].value
\* A set that evicts the oldest entry of a map that is not empty.
MapSetEvicting(m, k, v) ==
  IF MapHas(m, k)
  THEN [i \in 1..Len(m) |-> IF m[i].key = k THEN [key |-> k, value |-> v] ELSE m[i]]
  ELSE IF m # <<>> THEN Append(Tail(m), [key |-> k, value |-> v])
  ELSE Append(m, [key |-> k, value |-> v])
MapSet(m, k, v) ==
  IF MapHas(m, k)
  THEN [i \in 1..Len(m) |-> IF m[i].key = k THEN [key |-> k, value |-> v] ELSE m[i]]
  ELSE Append(m, [key |-> k, value |-> v])
MapKeys(m) == {m[i].key : i \in 1..Len(m)}

Init ==
  /\ tree \in SmallTrees
  /\ unrealPath = NoPath
  /\ customPath = NoPath
  /\ classCache = <<>>
  /\ apiCache = <<>>
  /\ initialized = FALSE
  /\ op = [name |-> "new", args |-> <<>>]
  /\ result = Ok("void")
  /\ globs = <<>>
  /\ reads = <<>>
  /\ repeat = FALSE
  /\ pending = <<>>
  /\ writes = <<>>

\* A call whose recursion never ends starves the event loop: nothing runs after it.
Hung == result.kind = "diverges"

\* ------------------------------------------------------------------------
\* configureRoots: initialize and initializeCustomCodebase
\* ------------------------------------------------------------------------

\* An initialize that accepts every existing path.
InitializeRunAnyDirectory(t, enginePath) ==
  IF ~ExistsSync(t, enginePath)
  THEN Err("Invalid Unreal Engine path: Directory does not exist", "")
  ELSE Ok("void")

InitializeRun(t, enginePath) ==
  IF ~ExistsSync(t, enginePath)
  THEN Err("Invalid Unreal Engine path: Directory does not exist", "")
  ELSE IF /\ ~ExistsSync(t, PathJoin(enginePath, <<"Engine">>))
          /\ ~ExistsSync(t, PathJoin(enginePath, <<"Source">>))
  THEN Err("Invalid Unreal Engine path: Neither Engine nor Source directory found", "")
  ELSE Ok("void")

Initialize(enginePath) ==
  /\ ~Hung
  /\ LET r == InitializeRun(tree, enginePath)
     IN /\ result' = r
        /\ unrealPath' = IF r.kind = "ok" THEN enginePath ELSE unrealPath
        /\ initialized' = IF r.kind = "ok" THEN TRUE ELSE initialized
  /\ op' = [name |-> "initialize", args |-> <<enginePath>>]
  /\ globs' = <<>>
  /\ reads' = <<>>
  /\ repeat' = FALSE
  /\ UNCHANGED <<pending, writes>>
  /\ UNCHANGED <<tree, customPath, classCache, apiCache>>

InitializeCustomCodebaseRun(t, path) ==
  IF ~ExistsSync(t, path)
  THEN Err("Invalid custom codebase path: Directory does not exist", "")
  ELSE Ok("void")

\* An initializeCustomCodebase that makes the custom root the only root.
InitializeCustomCodebaseExclusive(path) ==
  /\ ~Hung
  /\ LET r == InitializeCustomCodebaseRun(tree, path)
     IN /\ result' = r
        /\ customPath' = IF r.kind = "ok" THEN path ELSE customPath
        /\ unrealPath' = IF r.kind = "ok" THEN NoPath ELSE unrealPath
        /\ initialized' = IF r.kind = "ok" THEN TRUE ELSE initialized
  /\ op' = [name |-> "initializeCustomCodebase", args |-> <<path>>]
  /\ globs' = <<>>
  /\ reads' = <<>>
  /\ repeat' = FALSE
  /\ UNCHANGED <<tree, classCache, apiCache, pending, writes>>

InitializeCustomCodebase(path) ==
  /\ ~Hung
  /\ LET r == InitializeCustomCodebaseRun(tree, path)
     IN /\ result' = r
        /\ customPath' = IF r.kind = "ok" THEN path ELSE customPath
        /\ initialized' = IF r.kind = "ok" THEN TRUE ELSE initialized
  /\ op' = [name |-> "initializeCustomCodebase", args |-> <<path>>]
  /\ globs' = <<>>
  /\ reads' = <<>>
  /\ repeat' = FALSE
  /\ UNCHANGED <<pending, writes>>
  /\ UNCHANGED <<tree, unrealPath, classCache, apiCache>>

\* ------------------------------------------------------------------------
\* Class Index: analyzeClass
\* ------------------------------------------------------------------------

\* The engine directories with the engine root itself tried first.
UeDirsRootFirst(unreal) ==
  << unreal,
     PathJoin(unreal, <<"Engine", "Source", "Runtime">>),
     PathJoin(unreal, <<"Engine", "Source", "Editor">>),
     PathJoin(unreal, <<"Source", "Runtime">>),
     PathJoin(unreal, <<"Source">>) >>

\* The engine directories analyzeClass searches, in its order.
UeDirs(unreal) ==
  << PathJoin(unreal, <<"Engine", "Source", "Runtime">>),
     PathJoin(unreal, <<"Engine", "Source", "Editor">>),
     PathJoin(unreal, <<"Source", "Runtime">>),
     PathJoin(unreal, <<"Source">>),
     unreal >>

\* The list of paths analyzeClass searches: the custom root, then the engine
\* directories that exist.
ClassSearchPaths(t, custom, unreal) ==
  (IF custom # NoPath THEN <<custom>> ELSE <<>>)
  \o (IF unreal # NoPath
      THEN SelectSeq(UeDirs(unreal), LAMBDA d : ExistsSync(t, d))
      ELSE <<>>)

\* One iteration of the file loop of analyzeClass on file number id: the file
\* is read (a failed read skips it) and tested with the existence pattern;
\* when that passes it is read again and extracted.
ScanFile(f, id, className, passes) ==
  [info  |-> IF passes THEN ExtractClassInfoWithRegex(f, className) ELSE NullInfo,
   reads |-> IF passes THEN <<id, id>> ELSE <<id>>]

\* A file loop that stops at the first file that passes the existence
\* pattern, whether or not its extraction succeeds.
ScanJoinFirstTested(here, rest) ==
  IF here.info # NullInfo \/ Len(here.reads) = 2 THEN here
  ELSE [info |-> rest.info, reads |-> here.reads \o rest.reads]

\* The file loop stops at the first file whose extraction succeeds.
ScanJoin(here, rest) ==
  IF here.info # NullInfo THEN here
  ELSE [info |-> rest.info, reads |-> here.reads \o rest.reads]

RECURSIVE ScanFiles(_, _, _)
ScanFiles(t, files, className) ==
  IF files = <<>> THEN [info |-> NullInfo, reads |-> <<>>]
  ELSE ScanJoin(ScanFile(Trees[t][Head(files)], Head(files), className,
                         /\ Trees[t][Head(files)].readable
                         /\ ClassDefPatternTest(Trees[t][Head(files)], className)),
                ScanFiles(t, Tail(files), className))

\* The loop over the search paths: one glob per path, until a file satisfies.
PathJoinScan(dir, here, rest) ==
  IF here.info # NullInfo
  THEN [info |-> here.info, globs |-> <<dir>>, reads |-> here.reads]
  ELSE [info |-> rest.info, globs |-> <<dir>> \o rest.globs, reads |-> here.reads \o rest.reads]

RECURSIVE ScanPaths(_, _, _)
ScanPaths(t, paths, className) ==
  IF paths = <<>> THEN [info |-> NullInfo, globs |-> <<>>, reads |-> <<>>]
  ELSE PathJoinScan(Head(paths),
                    ScanFiles(t, Glob(t, Head(paths), "*.h", TRUE), className),
                    ScanPaths(t, Tail(paths), className))

\* An outcome of analyzeClass that touched neither the cache nor the disk.
Quiet(c, r) == [result |-> r, cache |-> c.cache, globs |-> <<>>, reads |-> <<>>]

\* An end of analyzeClass that returns the record without caching it.
ScannedUncached(c, className, s) ==
  [result |-> IF s.info # NullInfo THEN Ok(s.info)
              ELSE Err("Class not found: ", className),
   cache  |-> c.cache,
   globs  |-> s.globs,
   reads  |-> s.reads]

\* The end of analyzeClass after the scan s: cache and return, or throw.
Scanned(c, className, s) ==
  IF s.info # NullInfo
  THEN [result |-> Ok(s.info),
        cache  |-> MapSet(c.cache, className, s.info),
        globs  |-> s.globs,
        reads  |-> s.reads]
  ELSE [result |-> Err("Class not found: ", className),
        cache  |-> c.cache,
        globs  |-> s.globs,
        reads  |-> s.reads]

\* analyzeClass as it would run without its cache lookup.
AnalyzeClassRunUncached(c, className) ==
  IF ~c.initialized THEN Quiet(c, Err("Analyzer not initialized", ""))
  ELSE IF ClassSearchPaths(c.tree, c.custom, c.unreal) = <<>>
  THEN Quiet(c, Err("No valid search path configured", ""))
  ELSE Scanned(c, className,
               ScanPaths(c.tree, ClassSearchPaths(c.tree, c.custom, c.unreal), className))

\* analyzeClass as it would run without its initialization guard.
AnalyzeClassRunUnguarded(c, className) ==
  IF MapHas(c.cache, className) THEN Quiet(c, Ok(MapGet(c.cache, className)))
  ELSE IF ClassSearchPaths(c.tree, c.custom, c.unreal) = <<>>
  THEN Quiet(c, Err("No valid search path configured", ""))
  ELSE Scanned(c, className,
               ScanPaths(c.tree, ClassSearchPaths(c.tree, c.custom, c.unreal), className))

\* analyzeClass(className) run in the analyzer state c (tree, roots, flag and
\* class cache): its outcome, the class cache after it and what it scanned.
AnalyzeClassRun(c, className) ==
  IF ~c.initialized THEN Quiet(c, Err("Analyzer not initialized", ""))
  ELSE IF MapHas(c.cache, className) THEN Quiet(c, Ok(MapGet(c.cache, className)))
  ELSE IF ClassSearchPaths(c.tree, c.custom, c.unreal) = <<>>
  THEN Quiet(c, Err("No valid search path configured", ""))
  ELSE Scanned(c, className,
               ScanPaths(c.tree, ClassSearchPaths(c.tree, c.custom, c.unreal), className))

\* The analyzer state an operation runs in (the last four fields are the
\* working storage of findClassHierarchy).
Analyzer ==
  [tree |-> tree, custom |-> customPath, unreal |-> unrealPath,
   initialized |-> initialized, cache |-> classCache,
   nodes |-> <<>>, globs |-> <<>>, reads |-> <<>>, diverged |-> FALSE]

AnalyzeClass(className) ==
  /\ ~Hung
  /\ LET r == AnalyzeClassRun(Analyzer, className)
     IN /\ result' = r.result
        /\ classCache' = r.cache
        /\ globs' = r.globs
        /\ reads' = r.reads
  /\ op' = [name |-> "analyzeClass", args |-> <<className>>]
  /\ repeat' = (op.name = "analyzeClass" /\ op.args = <<className>> /\ result.kind = "ok")
  /\ UNCHANGED <<pending, writes>>
  /\ UNCHANGED <<tree, unrealPath, customPath, apiCache, initialized>>

\* ------------------------------------------------------------------------
\* Hierarchy Resolver: findClassHierarchy
\* ------------------------------------------------------------------------

Leaf(className) == [className |-> className, superclasses |-> <<>>, interfaces |-> <<>>]

InSeq(x, s) == \E i \in 1..Len(s) : s[i] = x

\* A node that lists the interfaces of its class whatever the caller asked.
NodeOfWithInterfaces(classInfo, includeInterfaces, children) ==
  [className    |-> classInfo.name,
   superclasses |-> children,
   interfaces   |-> classInfo.interfaces]

\* The node findClassHierarchy builds for a resolved class.
NodeOf(classInfo, includeInterfaces, children) ==
  [className    |-> classInfo.name,
   superclasses |-> children,
   interfaces   |-> IF includeInterfaces THEN classInfo.interfaces ELSE <<>>]

\* A superclass loop whose catch block adds nothing for a call that threw.
AbsorbSkipping(c, name, h) ==
  [c EXCEPT !.cache = h.cache,
            !.nodes = IF h.result.kind = "ok" THEN Append(@, h.result.value) ELSE @,
            !.globs = @ \o h.globs,
            !.reads = @ \o h.reads,
            !.diverged = (h.result.kind = "diverges")]

\* The superclass loop after the recursive call h for the superclass `name`:
\* a call that threw adds the superclass as a leaf.
Absorb(c, name, h) ==
  [c EXCEPT !.cache = h.cache,
            !.nodes = IF h.result.kind = "diverges" THEN @
                      ELSE Append(@, IF h.result.kind = "ok" THEN h.result.value
                                     ELSE Leaf(name)),
            !.globs = @ \o h.globs,
            !.reads = @ \o h.reads,
            !.diverged = (h.result.kind = "diverges")]

\* A return that gives back the node built so far when a class came up again
\* on its own path.
FinishOnCycle(a, includeInterfaces, loop) ==
  [result |-> Ok(NodeOf(a.result.value, includeInterfaces, loop.nodes)),
   cache  |-> loop.cache,
   globs  |-> loop.globs,
   reads  |-> loop.reads]

\* The return of findClassHierarchy after its superclass loop.
Finish(a, includeInterfaces, loop) ==
  [result |-> IF loop.diverged THEN Diverges
              ELSE Ok(NodeOf(a.result.value, includeInterfaces, loop.nodes)),
   cache  |-> loop.cache,
   globs  |-> loop.globs,
   reads  |-> loop.reads]

\* findClassHierarchy run in the analyzer state c, below the recursion path
\* `path` (the classes whose superclass loops are open).  One operator holds
\* both halves of the recursion:
\*   mode "call": the call findClassHierarchy(className, includeInterfaces),
\*                a being the outcome of its analyzeClass(className);
\*   mode "loop": the loop over the remaining superclasses `supers` of
\*                className, c holding the nodes built so far.
\* The code keeps no visited set: when a class that resolved comes up again on
\* its own path, every class of the loop is cached by then and the same calls
\* repeat for ever, so the call never returns.
RECURSIVE FindClassHierarchyRun(_, _, _, _, _, _, _)
FindClassHierarchyRun(mode, c, className, a, supers, includeInterfaces, path) ==
  IF mode = "call"
  THEN IF a.result.kind = "error" THEN a
       ELSE IF InSeq(className, path) THEN [a EXCEPT !.result = Diverges]
       ELSE Finish(a, includeInterfaces,
                   FindClassHierarchyRun(
                     "loop",
                     [c EXCEPT !.cache = a.cache, !.nodes = <<>>, !.globs = a.globs,
                               !.reads = a.reads, !.diverged = FALSE],
                     className, a, a.result.value.superclasses, includeInterfaces,
                     Append(path, className)))
  ELSE IF supers = <<>> \/ c.diverged THEN c
       ELSE FindClassHierarchyRun(
              "loop",
              Absorb(c, Head(supers),
                     FindClassHierarchyRun("call", c, Head(supers),
                                           AnalyzeClassRun(c, Head(supers)), <<>>,
                                           includeInterfaces, path)),
              className, a, Tail(supers), includeInterfaces, path)

\* findClassHierarchy(className, includeInterfaces) called on the analyzer.
HierarchyOutcome(className, includeInterfaces) ==
  FindClassHierarchyRun("call", Analyzer, className, AnalyzeClassRun(Analyzer, className),
                        <<>>, includeInterfaces, <<>>)

FindClassHierarchy(className, includeInterfaces) ==
  /\ ~Hung
  /\ LET r == HierarchyOutcome(className, includeInterfaces)
     IN /\ result' = r.result
        /\ classCache' = r.cache
        /\ globs' = r.globs
        /\ reads' = r.reads
  /\ op' = [name |-> "findClassHierarchy", args |-> <<className, includeInterfaces>>]
  /\ repeat' = FALSE
  /\ UNCHANGED <<pending, writes>>
  /\ UNCHANGED <<tree, unrealPath, customPath, apiCache, initialized>>

\* ------------------------------------------------------------------------
\* API reference: queryApiReference
\* ------------------------------------------------------------------------

ApiQueries == {<<"AFoo">>, <<"actor", "core">>}
\* Options: hasMaxResults tells whether the caller gave maxResults at all.
ApiOptions ==
  {[category |-> "", module |-> "", hasMaxResults |-> FALSE, maxResults |-> 0],
   [category |-> "Actor", module |-> "", hasMaxResults |-> TRUE, maxResults |-> 1]}

CharsOfAll(names) == [k \in 1..Len(names) |-> Chars(names[k])] \o <<>>

\* class NAME, followed by " : public " and the superclasses joined by
\* ", public " when there are any
GenerateClassSyntax(classInfo) ==
  Chars("class") \o <<" ">> \o Chars(classInfo.name)
  \o (IF classInfo.superclasses = <<>> THEN <<>>
      ELSE <<" ", ":", " ">> \o Chars("public") \o <<" ">>
           \o JoinWith(CharsOfAll(classInfo.superclasses),
                       <<",", " ">> \o Chars("public") \o <<" ">>))

DetermineCategory(classInfo) ==
  IF StartsWith(Chars(classInfo.name), <<"U">>) THEN "Object"
  ELSE IF StartsWith(Chars(classInfo.name), <<"A">>) THEN "Actor"
  ELSE IF StartsWith(Chars(classInfo.name), <<"F">>) THEN "Structure"
  ELSE IF \E k \in 1..Len(classInfo.superclasses) :
            Includes(Chars(classInfo.superclasses[k]), Chars("Component"))
  THEN "Component"
  ELSE "Miscellaneous"

\* The path segment after the first 'Runtime' segment of filePath.split(path.sep),
\* 'Core' when there is none; `parts` are the segments, the file name last.
ModuleOfParts(parts, runtimeIndex) ==
  IF runtimeIndex >= 1 /\ runtimeIndex < Len(parts) THEN parts[runtimeIndex + 1] ELSE "Core"

DetermineModule(file) ==
  ModuleOfParts(Append(file.dir, file.base),
                MinOrZero({k \in 1..Len(file.dir) : file.dir[k] = "Runtime"}))

\* The entry getOrCreateApiReference builds for a record.
ApiReferenceOf(classInfo) ==
  [className      |-> classInfo.name,
   description    |-> Chars("Class") \o <<" ">> \o Chars(classInfo.name),
   syntax         |-> GenerateClassSyntax(classInfo),
   examples       |-> <<>>,
   remarks        |-> <<>>,
   relatedClasses |-> classInfo.superclasses \o classInfo.interfaces,
   category       |-> DetermineCategory(classInfo),
   module         |-> DetermineModule(classInfo.file),
   version        |-> "5.0"]

\* getOrCreateApiReference(classInfo): the entry cache after the call (the
\* entry returned is the one it then holds for classInfo.name).
GetOrCreateApiReference(api, classInfo) ==
  IF MapHas(api, classInfo.name) THEN api
  ELSE MapSet(api, classInfo.name, ApiReferenceOf(classInfo))

\* The loop of queryApiReference over the entries of the class cache, as far
\* as the entry cache goes.
RECURSIVE ApiCacheAfter(_, _)
ApiCacheAfter(api, entries) ==
  IF entries = <<>> THEN api
  ELSE ApiCacheAfter(GetOrCreateApiReference(api, Head(entries).value), Tail(entries))

\* The text calculateApiRelevance searches, lower-cased.
ApiText(apiRef) ==
  LowerStr(JoinWith(<<Chars(apiRef.className), apiRef.description,
                      Chars(apiRef.category), Chars(apiRef.module)>>
                    \o CharsOfAll(apiRef.relatedClasses), <<" ">>))

\* A scoring in which only the first field that holds the term counts.
TermScoreFirstField(apiRef, term) ==
  IF Includes(LowerStr(Chars(apiRef.className)), term) THEN 10
  ELSE IF Includes(LowerStr(Chars(apiRef.category)), term) THEN 5
  ELSE IF Includes(LowerStr(Chars(apiRef.module)), term) THEN 5
  ELSE IF Includes(ApiText(apiRef), term) THEN 2
  ELSE 0

\* The body of the loop over the search terms: what one term adds to the score.
TermScore(apiRef, term) ==
    (IF Includes(LowerStr(Chars(apiRef.className)), term) THEN 10 ELSE 0)
  + (IF Includes(LowerStr(Chars(apiRef.category)), term) THEN 5 ELSE 0)
  + (IF Includes(LowerStr(Chars(apiRef.module)), term) THEN 5 ELSE 0)
  + (IF Includes(ApiText(apiRef), term) THEN 2 ELSE 0)

\* calculateApiRelevance(apiRef, searchTerms)
RECURSIVE CalculateApiRelevance(_, _)
CalculateApiRelevance(apiRef, searchTerms) ==
  IF searchTerms = <<>> THEN 0
  ELSE TermScore(apiRef, Head(searchTerms))
       + CalculateApiRelevance(apiRef, Tail(searchTerms))

\* query.toLowerCase().split(/\s+/), the query given as its words.
SearchTerms(query) == [k \in 1..Len(query) |-> LowerStr(Chars(query[k]))] \o <<>>

\* An iteration that does not look at the module filter.
ApiResultOfAnyModule(apiRef, relevance, options) ==
  IF /\ options.category = "" \/ apiRef.category = options.category
     /\ relevance > 0
  THEN <<[reference |-> apiRef, relevance |-> relevance]>>
  ELSE <<>>

\* One iteration of the loop for the entry apiRef with the score `relevance`:
\* the filters (category and module when given, a positive score) and the
\* result pushed; its context and learning resources are texts made of the
\* fields of the reference.
ApiResultOf(apiRef, relevance, options) ==
  IF /\ options.category = "" \/ apiRef.category = options.category
     /\ options.module = "" \/ apiRef.module = options.module
     /\ relevance > 0
  THEN <<[reference |-> apiRef, relevance |-> relevance]>>
  ELSE <<>>

ApiResultFor(apiRef, terms, options) ==
  ApiResultOf(apiRef, CalculateApiRelevance(apiRef, terms), options)

RECURSIVE ApiResults(_, _, _, _)
ApiResults(api, entries, terms, options) ==
  IF entries = <<>> THEN <<>>
  ELSE ApiResultFor(MapGet(api, Head(entries).value.name), terms, options)
       \o ApiResults(api, Tail(entries), terms, options)

\* results.sort((a, b) => b.relevance - a.relevance): stable, descending.
RECURSIVE InsertByRelevance(_, _)
InsertByRelevance(x, sorted) ==
  IF sorted = <<>> \/ Head(sorted).relevance <= x.relevance THEN <<x>> \o sorted
  ELSE <<Head(sorted)>> \o InsertByRelevance(x, Tail(sorted))

\* The results left in the order of the class cache.
SortByRelevanceOmitted(results) == results

RECURSIVE SortByRelevance(_)
SortByRelevance(results) ==
  IF results = <<>> THEN <<>>
  ELSE InsertByRelevance(Head(results), SortByRelevance(Tail(results)))

\* The end of queryApiReference once the entry cache is filled.
\* (options.maxResults || 10: an omitted limit and a limit of 0 both give 10.)
ApiQueried(api, entries, terms, options) ==
  [result |-> Ok(Slice(SortByRelevance(ApiResults(api, entries, terms, options)), 0,
                       IF options.hasMaxResults /\ options.maxResults # 0
                       THEN options.maxResults ELSE 10)),
   api    |-> api,
   cache  |-> entries]

\* A query that first resolves the class its first word names.
QueryApiReferenceRunResolving(c, api, query, options) ==
  IF ~c.initialized
  THEN [result |-> Err("Analyzer not initialized", ""), api |-> api, cache |-> c.cache]
  ELSE ApiQueried(ApiCacheAfter(api, AnalyzeClassRun(c, query[1]).cache),
                  AnalyzeClassRun(c, query[1]).cache, SearchTerms(query), options)

\* queryApiReference(query, options) run in the analyzer state c with the
\* entry cache api: its outcome and the two caches after it.
QueryApiReferenceRun(c, api, query, options) ==
  IF ~c.initialized
  THEN [result |-> Err("Analyzer not initialized", ""), api |-> api, cache |-> c.cache]
  ELSE ApiQueried(ApiCacheAfter(api, c.cache), c.cache, SearchTerms(query), options)

QueryApiReference(query, options) ==
  /\ ~Hung
  /\ LET r == QueryApiReferenceRun(Analyzer, apiCache, query, options)
     IN /\ result' = r.result
        /\ apiCache' = r.api
        /\ classCache' = r.cache
  /\ op' = [name |-> "queryApiReference", args |-> <<query, options>>]
  /\ globs' = <<>>
  /\ reads' = <<>>
  /\ repeat' = FALSE
  /\ UNCHANGED <<pending, writes>>
  /\ UNCHANGED <<tree, unrealPath, customPath, initialized>>

\* ------------------------------------------------------------------------
\* Text/Reference Search: findReferences and searchCode
\* ------------------------------------------------------------------------

\* The cap of references.slice(0, 100) and of results.slice(0, 100).
REFERENCE_LIMIT == 100
SEARCH_LIMIT == 100

Identifiers == {"Foo", "AFoo", "UObject"}
Queries == {"foo", "AFoo", "UObject"}
FilePatterns == {"*.{h,cpp}", "*.h", "*.usf"}

\* content.split('\n') of a file: the text of each line.
Texts(f) == [i \in 1..Len(f.lines) |-> LineText(f.lines[i])] \o <<>>

\* \b at the 0-based offset k of s: exactly one of the characters around it
\* is a word character.
IsBoundary(s, k) ==
  (k >= 1 /\ IsWordChar(s[k])) # (k < Len(s) /\ IsWordChar(s[k + 1]))

\* new RegExp('\\b' + identifier + '\\b', 'g').test(line), lastIndex being 0
\* at every test (the code resets it after a match, a failed test resets it).
WordTest(line, word) ==
  \E k \in 0..Len(line) :
    OccursAt(line, word, k) /\ IsBoundary(line, k) /\ IsBoundary(line, k + Len(word))

\* A context window whose start is not clipped at the first line.
ContextOfUnclipped(texts, i) == JoinLines(Slice(texts, i - 2, i + 3))

\* lines.slice(Math.max(0, i - 2), i + 3).join('\n') for the 0-based index i.
ContextOf(texts, i) == JoinLines(Slice(texts, Max(0, i - 2), i + 3))

\* The line numbers (1-based) of a file, in order.
LineNumbers(texts) == [i \in 1..Len(texts) |-> i]

\* The entry findReferences pushes for line number n (index n - 1).
ReferenceAt(f, texts, n, word) ==
  [file    |-> PathOf(f),
   line    |-> n,
   column  |-> IndexOf(texts[n], word) + 1,
   context |-> ContextOf(texts, n - 1)]

ReferencesAt(f, texts, hits, word) ==
  [k \in 1..Len(hits) |-> ReferenceAt(f, texts, hits[k], word)] \o <<>>

\* The line loop of findReferences over one file; a file that cannot be
\* read is skipped.
ReferencesInFile(f, texts, word) ==
  IF ~f.readable THEN <<>>
  ELSE ReferencesAt(f, texts, SelectSeq(LineNumbers(texts), LAMBDA n : WordTest(texts[n], word)), word)

RECURSIVE ReferencesInFiles(_, _, _)
ReferencesInFiles(t, files, word) ==
  IF files = <<>> THEN <<>>
  ELSE ReferencesInFile(Trees[t][Head(files)], Texts(Trees[t][Head(files)]), word)
       \o ReferencesInFiles(t, Tail(files), word)

\* this.customPath || this.unrealPath
ReferenceSearchPath(c) == IF c.custom # NoPath THEN c.custom ELSE c.unreal

\* findReferences returning every reference it collected.
ReferencesFoundUncapped(t, searchPath, files, word) ==
  [result |-> Ok(ReferencesInFiles(t, files, word)),
   globs  |-> <<searchPath>>,
   reads  |-> files]

\* findReferences once the files are enumerated.
ReferencesFound(t, searchPath, files, word) ==
  [result |-> Ok(Slice(ReferencesInFiles(t, files, word), 0, REFERENCE_LIMIT)),
   globs  |-> <<searchPath>>,
   reads  |-> files]

\* findReferences(identifier, type) run in the analyzer state c; the type
\* hint is not read.
FindReferencesRun(c, identifier) ==
  IF ~c.initialized THEN Quiet(c, Err("Analyzer not initialized", ""))
  ELSE IF ReferenceSearchPath(c) = NoPath
  THEN Quiet(c, Err("No valid search path configured", ""))
  ELSE ReferencesFound(c.tree, ReferenceSearchPath(c),
                       Glob(c.tree, ReferenceSearchPath(c), "*.{h,cpp}", FALSE),
                       Chars(identifier))

FindReferences(identifier) ==
  /\ ~Hung
  /\ LET r == FindReferencesRun(Analyzer, identifier)
     IN /\ result' = r.result
        /\ globs' = r.globs
        /\ reads' = r.reads
  /\ op' = [name |-> "findReferences", args |-> <<identifier>>]
  /\ repeat' = FALSE
  /\ UNCHANGED <<pending, writes>>
  /\ UNCHANGED <<tree, unrealPath, customPath, classCache, apiCache, initialized>>

\* The shader directories searchCode adds for a shader file pattern.
ShaderPaths(t, unreal) ==
  SelectSeq(<< PathJoin(unreal, <<"Engine", "Shaders">>), PathJoin(unreal, <<"Shaders">>) >>,
            LAMBDA d : ExistsSync(t, d))

\* The list of paths searchCode enumerates.
CodeSearchPaths(c, filePattern) ==
  (IF c.custom # NoPath THEN <<c.custom>> ELSE <<>>)
  \o (IF c.unreal # NoPath
      THEN <<c.unreal>> \o (IF IsShaderPattern(filePattern)
                            THEN ShaderPaths(c.tree, c.unreal) ELSE <<>>)
      ELSE <<>>)

\* allFiles: the glob results of all the search paths, concatenated.
RECURSIVE GlobAll(_, _, _)
GlobAll(t, paths, filePattern) ==
  IF paths = <<>> THEN <<>>
  ELSE Glob(t, Head(paths), filePattern, FALSE) \o GlobAll(t, Tail(paths), filePattern)

\* [...new Set(allFiles)]: the first occurrence of each file, in order.
Dedupe(files) ==
  SelectSeq([i \in 1..Len(files) |-> i],
            LAMBDA i : \A j \in 1..(i - 1) : files[j] # files[i])

DedupeFiles(files) == [k \in 1..Len(Dedupe(files)) |-> files[Dedupe(files)[k]]] \o <<>>

\* line.search(regex) for the query compiled with the flags gi: the 0-based
\* index of the first match, or -1.  The queries of the model are literals.
RegexSearch(line, query) == IndexOf(LowerStr(line), LowerStr(query))

\* regex.test(line), lastIndex being 0 at every test.
RegexTest(line, query) == RegexSearch(line, query) >= 0

\* The comment test applied to the line as it stands, indentation included.
IsCommentLineUntrimmed(line) ==
  StartsWith(line, <<"/", "/">>) \/ StartsWith(line, <<"/", "*">>)

\* line.trim().startsWith('//') || line.trim().startsWith('/*')
IsCommentLine(line) ==
  StartsWith(Trim(line), <<"/", "/">>) \/ StartsWith(Trim(line), <<"/", "*">>)

\* The entry searchCode pushes for line number n (index n - 1).
ResultAt(f, texts, n, query) ==
  [file    |-> PathOf(f),
   line    |-> n,
   column  |-> RegexSearch(texts[n], query) + 1,
   context |-> ContextOf(texts, n - 1)]

ResultsAt(f, texts, hits, query) ==
  [k \in 1..Len(hits) |-> ResultAt(f, texts, hits[k], query)] \o <<>>

\* The line loop of searchCode over one file.
ResultsInFile(f, texts, query, includeComments) ==
  IF ~f.readable THEN <<>>
  ELSE ResultsAt(f, texts,
                 SelectSeq(LineNumbers(texts),
                           LAMBDA n : /\ ~(~includeComments /\ IsCommentLine(texts[n]))
                                      /\ RegexTest(texts[n], query)),
                 query)

RECURSIVE ResultsInFiles(_, _, _, _)
ResultsInFiles(t, files, query, includeComments) ==
  IF files = <<>> THEN <<>>
  ELSE ResultsInFile(Trees[t][Head(files)], Texts(Trees[t][Head(files)]), query,
                     includeComments)
       \o ResultsInFiles(t, Tail(files), query, includeComments)

\* searchCode once the files are enumerated and de-duplicated.
ResultsFound(t, paths, files, query, includeComments) ==
  [result |-> Ok(Slice(ResultsInFiles(t, files, query, includeComments), 0, SEARCH_LIMIT)),
   globs  |-> paths,
   reads  |-> files]

\* searchCode(query, filePattern, includeComments) run in the analyzer state c.
SearchCodeRun(c, query, filePattern, includeComments) ==
  IF ~c.initialized THEN Quiet(c, Err("Analyzer not initialized", ""))
  ELSE IF c.custom = NoPath /\ c.unreal = NoPath
  THEN Quiet(c, Err("No valid search path configured", ""))
  ELSE ResultsFound(c.tree, CodeSearchPaths(c, filePattern),
                    DedupeFiles(GlobAll(c.tree, CodeSearchPaths(c, filePattern), filePattern)),
                    Chars(query), includeComments)

SearchCode(query, filePattern, includeComments) ==
  /\ ~Hung
  /\ LET r == SearchCodeRun(Analyzer, query, filePattern, includeComments)
     IN /\ result' = r.result
        /\ globs' = r.globs
        /\ reads' = r.reads
  /\ op' = [name |-> "searchCode", args |-> <<query, filePattern, includeComments>>]
  /\ repeat' = FALSE
  /\ UNCHANGED <<pending, writes>>
  /\ UNCHANGED <<tree, unrealPath, customPath, classCache, apiCache, initialized>>

\* ------------------------------------------------------------------------
\* Specification
\* ------------------------------------------------------------------------

\* Configuration, class resolution and the API query.
Next ==
  \/ \E p \in EnginePathInputs : Initialize(p)
  \/ \E p \in PathInputs : InitializeCustomCodebase(p)
  \/ \E n \in ClassNames : AnalyzeClass(n)
  \/ \E q \in ApiQueries, o \in ApiOptions : QueryApiReference(q, o)

Spec == Init /\ [][Next]_vars

\* Configuration, class resolution and the hierarchy.
NextHierarchy ==
  \/ \E p \in PathInputs : Initialize(p)
  \/ \E p \in PathInputs : InitializeCustomCodebase(p)
  \/ \E n \in ClassNames : AnalyzeClass(n)
  \/ \E n \in ClassNames, b \in BOOLEAN : FindClassHierarchy(n, b)

SpecHierarchy == Init /\ [][NextHierarchy]_vars

\* The searches alone, on the trees that hold more matching lines than the cap.
InitSearch ==
  /\ tree \in SearchTrees
  /\ unrealPath = NoPath
  /\ customPath = NoPath
  /\ classCache = <<>>
  /\ apiCache = <<>>
  /\ initialized = FALSE
  /\ op = [name |-> "new", args |-> <<>>]
  /\ result = Ok("void")
  /\ globs = <<>>
  /\ reads = <<>>
  /\ repeat = FALSE
  /\ pending = <<>>
  /\ writes = <<>>

NextSearch ==
  \/ \E p \in PathInputs : Initialize(p)
  \/ \E p \in PathInputs : InitializeCustomCodebase(p)
  \/ \E i \in Identifiers : FindReferences(i)
  \/ \E q \in Queries, fp \in FilePatterns, b \in BOOLEAN : SearchCode(q, fp, b)

SpecSearch == InitSearch /\ [][NextSearch]_vars

\* ------------------------------------------------------------------------
\* Properties of class resolution
\* ------------------------------------------------------------------------

\* The headers at or below root that a scan considers: generated headers and
\* build output (an Intermediate directory below the root) are left out.
HeadersBelow(t, root) ==
  {i \in FileIds(t) :
     /\ IsPrefix(root, Trees[t][i].dir)
     /\ Trees[t][i].ext = "h"
     /\ ~InSeq("Intermediate", SubSeq(Trees[t][i].dir, Len(root) + 1, Len(Trees[t][i].dir)))}

\* File i can be read, passes the existence pattern for className and yields
\* a record.
Satisfies(t, i, className) ==
  /\ Trees[t][i].readable
  /\ ClassDefPatternTest(Trees[t][i], className)
  /\ ExtractClassInfoWithRegex(Trees[t][i], className) # NullInfo

RootDefines(t, root, className) ==
  root # NoPath /\ \E i \in HeadersBelow(t, root) : Satisfies(t, i, className)

\* C1: whenever both roots are configured and both define class N, a call
\* analyzeClass(N) returns the record of a file of the custom root, whatever
\* was configured and resolved before.
C1_CustomRootWins ==
  (/\ op.name = "analyzeClass"
   /\ RootDefines(tree, customPath, op.args[1])
   /\ RootDefines(tree, unrealPath, op.args[1]))
  => (result.kind = "ok" /\ IsPrefix(customPath, result.value.file.dir))

\* With engine root ue and custom root proj, both defining AFoo, analyzeClass
\* has returned the record of the engine's file.
C1_Witness ==
  /\ op = [name |-> "analyzeClass", args |-> <<"AFoo">>]
  /\ customPath = <<"proj">>
  /\ unrealPath = <<"ue">>
  /\ RootDefines(tree, customPath, "AFoo")
  /\ RootDefines(tree, unrealPath, "AFoo")
  /\ result.kind = "ok"
  /\ result.value.file
       = [dir |-> <<"ue", "Engine", "Source", "Runtime", "Core">>, base |-> "AFoo", ext |-> "h"]

\* C2: a call analyzeClass(N) that directly follows a successful
\* analyzeClass(N) returns the same record and neither enumerates a directory
\* nor reads a file.
C2_RepeatFromCache ==
  [][(/\ op.name = "analyzeClass" /\ result.kind = "ok"
      /\ op'.name = "analyzeClass" /\ op'.args = op.args)
     => (result' = result /\ globs' = <<>> /\ reads' = <<>>)]_vars

\* The second of two successive analyzeClass(N) has returned, the first
\* having scanned the disk.
C2_Witness ==
  /\ repeat
  /\ op.name = "analyzeClass"
  /\ result.kind = "ok"
  /\ result.value = MapGet(classCache, op.args[1])
  /\ globs = <<>>
  /\ reads = <<>>

\* C3 as stated: analyzeClass(N) with no root set fails with 'No valid search
\* path configured'.
C3_NoRootNoSearchPath ==
  (op.name = "analyzeClass" /\ customPath = NoPath /\ unrealPath = NoPath)
  => (result.kind = "error" /\ result.message = <<"No valid search path configured", "">>)

\* C3 as the code has it: analyzeClass(N) with no root set fails with
\* 'Analyzer not initialized', for every N.
C3_NoRootNotInitialized ==
  (op.name = "analyzeClass" /\ customPath = NoPath /\ unrealPath = NoPath)
  => (result.kind = "error" /\ result.message = <<"Analyzer not initialized", "">>)

C3_Witness ==
  /\ op.name = "analyzeClass"
  /\ customPath = NoPath
  /\ unrealPath = NoPath
  /\ result.kind = "error"
  /\ result.message = <<"Analyzer not initialized", "">>

\* C4: an analyzeClass(N) that misses the cache throws 'Class not found: N'
\* exactly when no header under a configured root satisfies N, and a call that
\* throws leaves the class cache and the API cache as they were.
C4_NotFoundIffNoCandidate ==
  [][(op'.name = "analyzeClass" /\ initialized /\ ~MapHas(classCache, op'.args[1]))
     => /\ (result'.kind = "error" /\ result'.message = <<"Class not found: ", op'.args[1]>>)
           <=> ~(\/ RootDefines(tree, customPath, op'.args[1])
                 \/ RootDefines(tree, unrealPath, op'.args[1]))
        /\ result'.kind = "error" => (classCache' = classCache /\ apiCache' = apiCache)]_vars

\* A scan has failed with both caches filled.
C4_Witness ==
  /\ op.name = "analyzeClass"
  /\ result.kind = "error"
  /\ result.message = <<"Class not found: ", op.args[1]>>
  /\ reads # <<>>
  /\ classCache # <<>>
  /\ apiCache # <<>>

\* ------------------------------------------------------------------------
\* Properties of the hierarchy
\* ------------------------------------------------------------------------

\* The superclass names of the cached record of a class (none when not cached).
CachedSupers(n) ==
  IF MapHas(classCache, n)
  THEN {MapGet(classCache, n).superclasses[k] :
          k \in 1..Len(MapGet(classCache, n).superclasses)}
  ELSE {}

RECURSIVE AncestorClosure(_)
AncestorClosure(S) ==
  IF UNION {CachedSupers(n) : n \in S} \subseteq S THEN S
  ELSE AncestorClosure(S \cup UNION {CachedSupers(n) : n \in S})

\* A class reachable from n (n included) is its own ancestor.
Cyclic(n) == \E m \in AncestorClosure({n}) : m \in AncestorClosure(CachedSupers(m))

\* A returned tree: a resolved class has one child per superclass of its
\* record, in order; a class that does not resolve is a bare leaf.
RECURSIVE WellFormedTree(_)
WellFormedTree(node) ==
  IF MapHas(classCache, node.className)
  THEN /\ Len(node.superclasses) = Len(MapGet(classCache, node.className).superclasses)
       /\ \A k \in 1..Len(node.superclasses) :
            /\ node.superclasses[k].className
                 = MapGet(classCache, node.className).superclasses[k]
            /\ WellFormedTree(node.superclasses[k])
  ELSE /\ node = Leaf(node.className)
       /\ AnalyzeClassRun(Analyzer, node.className).result.kind = "error"

\* C5: findClassHierarchy(N, f) throws exactly when analyzeClass(N) throws, and
\* then that error; when N resolves, every superclass (at any depth) that does
\* not resolve is a leaf {className, [], []} of the returned tree.  The one
\* way a call on a resolvable N does not return a tree is a cycle among the
\* resolved superclasses, on which it never returns.
C5_UnresolvedAncestorIsLeaf ==
  op.name = "findClassHierarchy" =>
    /\ result.kind = "error" <=> AnalyzeClassRun(Analyzer, op.args[1]).result.kind = "error"
    /\ result.kind = "error" => result = AnalyzeClassRun(Analyzer, op.args[1]).result
    /\ result.kind = "ok" =>
         (result.value.className = op.args[1] /\ WellFormedTree(result.value))
    /\ result.kind = "diverges" <=> Cyclic(op.args[1])

\* A tree has been returned that holds, two levels down, a leaf for a
\* superclass that does not resolve.
C5_Witness ==
  /\ op.name = "findClassHierarchy"
  /\ result.kind = "ok"
  /\ ~MapHas(classCache, "UObject")
  /\ \E k \in 1..Len(result.value.superclasses) :
       InSeq(Leaf("UObject"), result.value.superclasses[k].superclasses)

\* ------------------------------------------------------------------------
\* Properties of the searches
\* ------------------------------------------------------------------------

\* A search has returned its list of matches.
Searched == op.name \in {"findReferences", "searchCode"} /\ result.kind = "ok"

FileAt(t, path) == CHOOSE i \in FileIds(t) : PathOf(Trees[t][i]) = path

\* The text of the line a returned match names.
MatchedText(m) == LineText(Trees[tree][FileAt(tree, m.file)].lines[m.line])

\* The trimmed text of a line starts with // or /*.
CommentOpener(text) ==
  /\ Len(Trim(text)) >= 2
  /\ Trim(text)[1] = "/"
  /\ Trim(text)[2] \in {"/", "*"}

\* The 0-based offsets at which an identifier occurs in a line as a whole word.
WordOffsets(text, word) ==
  {k \in 0..Len(text) :
     /\ OccursAt(text, word, k)
     /\ ~(k >= 1 /\ IsWordChar(text[k]))
     /\ ~(k + Len(word) < Len(text) /\ IsWordChar(text[k + Len(word) + 1]))}

\* The 0-based offsets at which a literal query matches a line, letter case
\* ignored.
QueryOffsets(text, query) ==
  {k \in 0..Len(text) : OccursAt(LowerStr(text), LowerStr(query), k)}

\* The offsets of the matches of the last search in a line, and whether the
\* search reports the line.
MatchOffsets(text) ==
  IF op.name = "findReferences" THEN WordOffsets(text, Chars(op.args[1]))
  ELSE QueryOffsets(text, Chars(op.args[1]))

LineReported(text) ==
  /\ MatchOffsets(text) # {}
  /\ op.name = "searchCode" => (op.args[3] \/ ~CommentOpener(text))

\* The matching lines of the scanned files: <<k, n>> is line n of the k-th
\* file scanned.
MatchPairs ==
  UNION {{<<k, n>> : n \in {i \in 1..Len(Trees[tree][reads[k]].lines) :
                             /\ Trees[tree][reads[k]].readable
                             /\ LineReported(LineText(Trees[tree][reads[k]].lines[i]))}} :
         k \in 1..Len(reads)}

\* Scan order: file enumeration order, then ascending line number.
NotAfter(p, q) == p[1] < q[1] \/ (p[1] = q[1] /\ p[2] <= q[2])

\* The pair of a returned match.
PairOf(m) ==
  <<CHOOSE k \in 1..Len(reads) : reads[k] = FileAt(tree, m.file), m.line>>

\* C6: findReferences and searchCode return exactly min(100, m) matches, m
\* being the number of matching lines of the scanned files, and these are the
\* first ones in scan order: each is a matching line, they ascend in scan
\* order, and no matching line up to the last one returned is left out.
C6_FirstHundredInScanOrder ==
  Searched =>
    /\ Len(result.value) = Min(100, Cardinality(MatchPairs))
    /\ \A j \in 1..Len(result.value) : PairOf(result.value[j]) \in MatchPairs
    /\ \A j \in 1..(Len(result.value) - 1) :
         /\ NotAfter(PairOf(result.value[j]), PairOf(result.value[j + 1]))
         /\ PairOf(result.value[j]) # PairOf(result.value[j + 1])
    /\ result.value # <<>> =>
         Cardinality({q \in MatchPairs :
                        NotAfter(q, PairOf(result.value[Len(result.value)]))})
           = Len(result.value)

\* A search has found more than 100 matching lines and returned 100.
C6_Witness ==
  /\ Searched
  /\ op.name = "findReferences"
  /\ Cardinality(MatchPairs) > 100
  /\ Len(result.value) = 100

\* The .h/.cpp files at or below root outside build output.
SourcesBelow(t, root) ==
  {i \in FileIds(t) :
     /\ IsPrefix(root, Trees[t][i].dir)
     /\ Trees[t][i].ext \in {"h", "cpp"}
     /\ Trees[t][i].readable
     /\ ~InSeq("Intermediate", SubSeq(Trees[t][i].dir, Len(root) + 1, Len(Trees[t][i].dir)))}

\* C7: with both roots configured, findReferences finds every whole-word
\* occurrence of the identifier in the .h/.cpp files of the engine root (seen
\* in the result whenever the cap of 100 is not reached).
C7_EngineRootScanned ==
  (/\ op.name = "findReferences" /\ result.kind = "ok"
   /\ customPath # NoPath /\ unrealPath # NoPath
   /\ Len(result.value) < 100)
  => \A i \in SourcesBelow(tree, unrealPath) :
       \A n \in 1..Len(Trees[tree][i].lines) :
         WordOffsets(LineText(Trees[tree][i].lines[n]), Chars(op.args[1])) # {}
         => \E j \in 1..Len(result.value) :
              result.value[j].file = PathOf(Trees[tree][i]) /\ result.value[j].line = n

\* With custom root proj and engine root ue, findReferences("UObject") has
\* returned nothing although line 1 of the engine's AActor.h names UObject.
C7_Witness ==
  /\ op = [name |-> "findReferences", args |-> <<"UObject">>]
  /\ customPath = <<"proj">>
  /\ unrealPath = <<"ue">>
  /\ result = Ok(<<>>)
  /\ \E i \in SourcesBelow(tree, unrealPath) :
       /\ Trees[tree][i].base = "AActor"
       /\ WordOffsets(LineText(Trees[tree][i].lines[1]), Chars("UObject")) # {}

\* C8: searchCode with includeComments false returns no line whose trimmed
\* text starts with // or /*, and (below the cap) every other line of the
\* scanned files that matches the query, a line inside a block comment opened
\* earlier included; with includeComments true it returns the comment lines
\* that match too.
C8_CommentLinesSkipped ==
  (op.name = "searchCode" /\ result.kind = "ok") =>
    /\ ~op.args[3] =>
         \A j \in 1..Len(result.value) : ~CommentOpener(MatchedText(result.value[j]))
    /\ Len(result.value) < 100 =>
         \A k \in 1..Len(reads) :
           \A n \in 1..Len(Trees[tree][reads[k]].lines) :
             (/\ Trees[tree][reads[k]].readable
              /\ QueryOffsets(LineText(Trees[tree][reads[k]].lines[n]), Chars(op.args[1])) # {}
              /\ op.args[3] \/ ~CommentOpener(LineText(Trees[tree][reads[k]].lines[n])))
             => \E j \in 1..Len(result.value) :
                  /\ result.value[j].file = PathOf(Trees[tree][reads[k]])
                  /\ result.value[j].line = n

\* A search without comments has returned line 5 of proj/Source/AFoo.h, which
\* lies inside the block comment opened on line 4, and not line 4.
C8_Witness ==
  /\ op.name = "searchCode"
  /\ result.kind = "ok"
  /\ ~op.args[3]
  /\ \E j \in 1..Len(result.value) :
       /\ result.value[j].file = [dir |-> <<"proj", "Source">>, base |-> "AFoo", ext |-> "h"]
       /\ result.value[j].line = 5
  /\ ~\E j \in 1..Len(result.value) :
       /\ result.value[j].file = [dir |-> <<"proj", "Source">>, base |-> "AFoo", ext |-> "h"]
       /\ result.value[j].line = 4

\* The lines of the file a returned match names.
MatchedFileTexts(m) == Texts(Trees[tree][FileAt(tree, m.file)])

\* C9: the context of every match returned for line L of a file of n lines is
\* the lines max(1, L-2) .. min(n, L+2) of the file joined by newlines.
C9_ContextWindow ==
  Searched =>
    \A j \in 1..Len(result.value) :
      result.value[j].context
        = JoinLines(SubSeq(MatchedFileTexts(result.value[j]),
                           Max(1, result.value[j].line - 2),
                           Min(Len(MatchedFileTexts(result.value[j])),
                               result.value[j].line + 2)))

\* findReferences has returned a match on a first line, a match on a last
\* line and a match with two lines on either side.
C9_Witness ==
  /\ op.name = "findReferences"
  /\ result.kind = "ok"
  /\ \E j \in 1..Len(result.value) : result.value[j].line = 1
  /\ \E j \in 1..Len(result.value) :
       result.value[j].line = Len(MatchedFileTexts(result.value[j]))
  /\ \E j \in 1..Len(result.value) :
       /\ result.value[j].line >= 3
       /\ result.value[j].line + 2 <= Len(MatchedFileTexts(result.value[j]))

\* C10: every match returned has line >= 1 and column >= 1, and its column is
\* the 1-based position of the first match in the line: the first whole-word
\* occurrence for findReferences, the first match of the query for searchCode.
C10_ColumnAtMatch ==
  Searched =>
    \A j \in 1..Len(result.value) :
      /\ result.value[j].line >= 1
      /\ result.value[j].column >= 1
      /\ result.value[j].column - 1 \in MatchOffsets(MatchedText(result.value[j]))
      /\ \A k \in MatchOffsets(MatchedText(result.value[j])) :
           result.value[j].column - 1 <= k

\* findReferences("Foo") has returned line 3 of proj/Source/AFoo.h,
\* "  AFoo * Foo ;", with column 4, inside AFoo; the word Foo is at column 10.
C10_Witness ==
  /\ op = [name |-> "findReferences", args |-> <<"Foo">>]
  /\ result.kind = "ok"
  /\ \E j \in 1..Len(result.value) :
       /\ result.value[j].file = [dir |-> <<"proj", "Source">>, base |-> "AFoo", ext |-> "h"]
       /\ result.value[j].line = 3
       /\ result.value[j].column = 4
       /\ WordOffsets(MatchedText(result.value[j]), Chars("Foo")) = {9}

\* ------------------------------------------------------------------------
\* The extractor on its own, on headers written for it
\* ------------------------------------------------------------------------

\* The bases a definition line is written from: at most MaxBases entries,
\* each a name with or without an access specifier.
MaxBases == 2
ClauseEntries ==
  [spec : AccessSpecifiers \cup {""}, name : {"AActor", "IInterfaceX", "IInterface", "IntBox"}]
Clauses == UNION {[1..n -> ClauseEntries] : n \in 0..MaxBases}
Shapes == {"plain", "final", "api"}

EntryToks(e) == IF e.spec = "" THEN <<e.name>> ELSE <<e.spec, e.name>>

RECURSIVE ClauseToks(_)
ClauseToks(entries) ==
  IF entries = <<>> THEN <<>>
  ELSE IF Len(entries) = 1 THEN EntryToks(entries[1])
  ELSE EntryToks(entries[1]) \o <<",">> \o ClauseToks(Tail(entries))

\* class [X_API] AFoo [final] [: bases] [{]
DefinitionLine(shape, entries, brace) ==
  (IF shape = "api" THEN <<"class", "ENGINE_API", "AFoo">> ELSE <<"class", "AFoo">>)
  \o (IF shape = "final" THEN <<"final">> ELSE <<>>)
  \o (IF entries = <<>> THEN <<>> ELSE <<":">> \o ClauseToks(entries))
  \o (IF brace THEN <<"{">> ELSE <<>>)

HeaderWith(shape, entries, brace) ==
  Fl(<<"proj", "Source">>, "AFoo", "h", TRUE,
     << Ln(0, <<"//", "AFoo", "x">>),
        Ln(0, DefinitionLine(shape, entries, brace)),
        Ln(0, <<"}", ";">>) >>)

\* A header of AFoo with n groups of members: a method declaration, a
\* UPROPERTY with its declaration on the same or on the next line, and a
\* typedef.
ManyMembers == 101

MethodLine(g) ==
  CASE g % 4 = 0 -> Ln(2, <<"UFUNCTION()", "virtual", "void", "Foo", "(", ")", "override", ";">>)
    [] g % 4 = 1 -> Ln(2, <<"static", "AFoo", "*", "Foo", "(", "float", "x", ")", ";">>)
    [] g % 4 = 2 -> Ln(2, <<"ENGINE_API", "void", "Foo", "(", ")", ";">>)
    [] g % 4 = 3 -> Ln(2, <<"virtual", "Foo", "(", ")", ";">>)

MemberLine(k) ==
  CASE k % 3 = 0 -> MethodLine(k \div 3)
    [] k % 3 = 1 -> IF (k \div 3) % 2 = 0 THEN Ln(2, <<"UPROPERTY()", "float", "x", ";">>)
                    ELSE Ln(2, <<"UPROPERTY()">>)
    [] k % 3 = 2 -> IF (k \div 3) % 2 = 0 THEN Ln(2, <<"typedef", "Foo", "(", ")", ";">>)
                    ELSE Ln(4, <<"AFoo", "*", "Foo", ";">>)

HeaderWithMembers(n) ==
  Fl(<<"proj", "Source">>, "AFoo", "h", TRUE,
     << Ln(0, <<"class", "AFoo", ":", "public", "AActor", "{">>),
        Ln(0, <<>>),
        Ln(2, <<"UPROPERTY()", "AActor", "&", "x", ";">>) >>
     \o [k \in 1..(3 * n) |-> MemberLine(k + 2)]
     \o << Ln(0, <<"}", ";">>) >>)

\* A header in which the definition of AFoo comes after a forward declaration
\* of AFoo or after the definition of AFooBar.
EarlierLines ==
  {<<"class", "AFoo", ";">>, <<"class", "AFooBar", "{">>, <<"class", "ENGINE_API", "AFooBar", "{">>}

HeaderWithEarlier(earlier) ==
  Fl(<<"proj", "Source">>, "AFoo", "h", TRUE,
     << Ln(0, earlier),
        Ln(0, <<"}", ";">>),
        Ln(0, <<"class", "AFoo", ":", "public", "AActor", ",", "public", "IInterfaceX", "{">>),
        Ln(0, <<"}", ";">>) >>)

ExtractFiles ==
  {HeaderWith(shape, entries, brace) : shape \in Shapes, entries \in Clauses, brace \in BOOLEAN}
  \cup {HeaderWithEarlier(earlier) : earlier \in EarlierLines}
  \cup {HeaderWithMembers(n) : n \in {2, ManyMembers}}

Pending == [kind |-> "pending"]

InitExtract ==
  /\ tree = 1
  /\ unrealPath = NoPath
  /\ customPath = NoPath
  /\ classCache = <<>>
  /\ apiCache = <<>>
  /\ initialized = FALSE
  /\ op \in {[name |-> "extractClassInfoWithRegex", args |-> <<f, "AFoo">>] : f \in ExtractFiles}
  /\ result = Pending
  /\ globs = <<>>
  /\ reads = <<>>
  /\ repeat = FALSE
  /\ pending = <<>>
  /\ writes = <<>>

\* extractClassInfoWithRegex(filePath, className) applied to the pending input.
ExtractClassInfo ==
  /\ op.name = "extractClassInfoWithRegex"
  /\ result = Pending
  /\ result' = Ok(ExtractClassInfoWithRegex(op.args[1], op.args[2]))
  /\ UNCHANGED <<tree, unrealPath, customPath, classCache, apiCache, initialized,
                 op, globs, reads, repeat, pending, writes>>

NextExtract == ExtractClassInfo

SpecExtract == InitExtract /\ [][NextExtract]_vars

\* The extractor has returned a record.
Extracted ==
  op.name = "extractClassInfoWithRegex" /\ result.kind = "ok" /\ result.value # NullInfo

\* The tokens of the line the returned record names as the definition line.
DefinitionToks == op.args[1].lines[result.value.line].toks

\* The names that follow an access specifier on a line, left to right.
SpecifiedBases(toks) ==
  [j \in 1..Len(SelectSeq([k \in 1..Len(toks) |-> k],
                          LAMBDA k : k < Len(toks) /\ toks[k] \in AccessSpecifiers))
     |-> toks[SelectSeq([k \in 1..Len(toks) |-> k],
                        LAMBDA k : k < Len(toks) /\ toks[k] \in AccessSpecifiers)[j] + 1]]
  \o <<>>

\* Starts with I, is not IInterface, does not start with Int.
InterfaceLike(b) ==
  /\ Chars(b)[1] = "I"
  /\ b # "IInterface"
  /\ ~(Len(Chars(b)) >= 3 /\ Chars(b)[2] = "n" /\ Chars(b)[3] = "t")

\* C11: the names that carry an access specifier on the definition line go,
\* in clause order, to interfaces when they start with I, are not IInterface
\* and do not start with Int, and to superclasses otherwise.
C11_InterfaceHeuristic ==
  Extracted =>
    /\ result.value.interfaces = SelectSeq(SpecifiedBases(DefinitionToks), InterfaceLike)
    /\ result.value.superclasses
         = SelectSeq(SpecifiedBases(DefinitionToks), LAMBDA b : ~InterfaceLike(b))

\* A record has been extracted from 'class AFoo : public IntBox, public IInterfaceX'.
C11_Witness ==
  /\ Extracted
  /\ SpecifiedBases(DefinitionToks) = <<"IntBox", "IInterfaceX">>
  /\ result.value.superclasses = <<"IntBox">>
  /\ result.value.interfaces = <<"IInterfaceX">>

\* ------------------------------------------------------------------------
\* The API query with more queries and limits
\* ------------------------------------------------------------------------

RankQueries == {<<"AActor">>, <<"o">>, <<"actor", "core">>}
LimitOptions ==
  {[category |-> "", module |-> "", hasMaxResults |-> FALSE, maxResults |-> 0]}
  \cup {[category |-> "", module |-> "", hasMaxResults |-> TRUE, maxResults |-> k] : k \in {0, 1}}

NextApi ==
  \/ \E p \in PathInputs : Initialize(p)
  \/ \E p \in PathInputs : InitializeCustomCodebase(p)
  \/ \E n \in ClassNames : AnalyzeClass(n)
  \/ \E q \in RankQueries, o \in LimitOptions : QueryApiReference(q, o)

SpecApi == Init /\ [][NextApi]_vars

\* C12: queryApiReference leaves the class cache as it was, every result is
\* for a class that was a key of the class cache at the call, and a query on
\* an empty class cache returns the empty list.
C12_QueryResolvesNothing ==
  [][op'.name = "queryApiReference"
     => /\ classCache' = classCache
        /\ result'.kind = "ok" =>
             /\ \A j \in 1..Len(result'.value) :
                  result'.value[j].reference.className \in MapKeys(classCache)
             /\ classCache = <<>> => result'.value = <<>>]_vars

\* A query has returned an entry while a class of the model is not cached.
C12_Witness ==
  /\ op.name = "queryApiReference"
  /\ result.kind = "ok"
  /\ result.value # <<>>
  /\ \E n \in ClassNames : ~MapHas(classCache, n)

\* The limit a caller states: maxResults when given, 10 when omitted.
StatedLimit(options) == IF options.hasMaxResults THEN options.maxResults ELSE 10

\* C13: queryApiReference returns at most maxResults entries for every given
\* maxResults >= 0, at most 10 when it is omitted, in descending relevance.
C13_AtMostMaxResults ==
  (op.name = "queryApiReference" /\ result.kind = "ok")
    => /\ Len(result.value) <= StatedLimit(op.args[2])
       /\ \A j, k \in 1..Len(result.value) :
            j < k => result.value[j].relevance >= result.value[k].relevance

\* A query with maxResults 0 has returned an entry.
C13_Witness ==
  /\ op.name = "queryApiReference"
  /\ result.kind = "ok"
  /\ op.args[2].hasMaxResults
  /\ op.args[2].maxResults = 0
  /\ Len(result.value) >= 1

\* The fields of an entry in which a term occurs, and the points the stated
\* weights give for them.
FieldsHolding(apiRef, term) ==
  {f \in {"className", "category", "module"} : Includes(LowerStr(Chars(apiRef[f])), term)}
  \cup (IF Includes(ApiText(apiRef), term) THEN {"text"} ELSE {})

WeightOf(fields) ==
    (IF "className" \in fields THEN 10 ELSE 0)
  + (IF "category" \in fields THEN 5 ELSE 0)
  + (IF "module" \in fields THEN 5 ELSE 0)
  + (IF "text" \in fields THEN 2 ELSE 0)

RECURSIVE PointsOver(_, _, _)
PointsOver(apiRef, terms, k) ==
  IF k = 0 THEN 0
  ELSE WeightOf(FieldsHolding(apiRef, terms[k])) + PointsOver(apiRef, terms, k - 1)

\* The relevance of every returned entry is the sum of the points of the
\* query's terms, and no term gives more than `most` points.
RelevanceIsSum(most) ==
  (op.name = "queryApiReference" /\ result.kind = "ok")
    => \A j \in 1..Len(result.value) :
         /\ result.value[j].relevance
              = PointsOver(result.value[j].reference, SearchTerms(op.args[1]),
                           Len(op.args[1]))
         /\ \A k \in 1..Len(op.args[1]) :
              WeightOf(FieldsHolding(result.value[j].reference,
                                     SearchTerms(op.args[1])[k])) <= most

\* C14 as stated: the relevance is the sum over the terms of 10 (class name),
\* 5 (category), 5 (module) and 2 (concatenated text), and no term gives more
\* than 19 points.
C14_TermGivesAtMost19 == RelevanceIsSum(19)

\* C14 amended: the same sum, and no term gives more than 22 points.
C14_TermGivesAtMost22 == RelevanceIsSum(22)

\* A one-term query has returned an entry whose term occurs in all four
\* places.
C14_Witness ==
  /\ op.name = "queryApiReference"
  /\ result.kind = "ok"
  /\ Len(op.args[1]) = 1
  /\ \E j \in 1..Len(result.value) : result.value[j].relevance = 22

\* A two-term query has returned an entry to which both terms give points.
TwoTermsScored ==
  /\ op.name = "queryApiReference"
  /\ result.kind = "ok"
  /\ Len(op.args[1]) = 2
  /\ \E j \in 1..Len(result.value) :
       \A k \in 1..2 :
         FieldsHolding(result.value[j].reference, SearchTerms(op.args[1])[k]) # {}

\* The position of the entry for the class n in a result list, 0 when absent.
PositionOf(results, n) ==
  MinOrZero({j \in 1..Len(results) : results[j].reference.className = n})

\* The term occurs in the class name of the entry.
InClassName(apiRef, term) == Includes(LowerStr(Chars(apiRef.className)), term)

\* The term occurs in a related-class name of the entry and in none of its
\* class name, category and module.
OnlyInRelated(apiRef, term) ==
  /\ \E k \in 1..Len(apiRef.relatedClasses) :
       Includes(LowerStr(Chars(apiRef.relatedClasses[k])), term)
  /\ FieldsHolding(apiRef, term) = {"text"}

\* C15: for a one-term query, an entry with the term in its class name comes
\* strictly before an entry that has the term only in its related-class
\* names, whenever the latter is returned.
C15_ClassNameMatchFirst ==
  (op.name = "queryApiReference" /\ result.kind = "ok" /\ Len(op.args[1]) = 1)
    => \A a, b \in MapKeys(classCache) :
         (/\ InClassName(MapGet(apiCache, a), SearchTerms(op.args[1])[1])
          /\ OnlyInRelated(MapGet(apiCache, b), SearchTerms(op.args[1])[1])
          /\ PositionOf(result.value, b) # 0)
           => /\ PositionOf(result.value, a) # 0
              /\ PositionOf(result.value, a) < PositionOf(result.value, b)

\* Both entries are returned, and the one matching in related-class names
\* only was resolved first.
C15_Witness ==
  /\ op.name = "queryApiReference"
  /\ result.kind = "ok"
  /\ Len(op.args[1]) = 1
  /\ \E a, b \in MapKeys(classCache) :
       /\ InClassName(MapGet(apiCache, a), SearchTerms(op.args[1])[1])
       /\ OnlyInRelated(MapGet(apiCache, b), SearchTerms(op.args[1])[1])
       /\ PositionOf(result.value, a) = 1
       /\ PositionOf(result.value, b) = 2
       /\ classCache[1].key = b

\* The state that configureRoots may commit to.
Configured == <<unrealPath, customPath, initialized, classCache, apiCache>>

\* C16: initialize succeeds only for an existing path that holds an Engine or
\* a Source entry, initializeCustomCodebase only for an existing path, and a
\* failed call of either leaves the roots, the initialized flag and both
\* caches as they were.
C16_ValidatedBeforeCommit ==
  [][/\ (op'.name = "initialize" /\ result'.kind = "ok")
          => /\ ExistsSync(tree, op'.args[1])
             /\ \/ ExistsSync(tree, op'.args[1] \o <<"Engine">>)
                \/ ExistsSync(tree, op'.args[1] \o <<"Source">>)
     /\ (op'.name = "initializeCustomCodebase" /\ result'.kind = "ok")
          => ExistsSync(tree, op'.args[1])
     /\ (op'.name \in {"initialize", "initializeCustomCodebase"} /\ result'.kind # "ok")
          => Configured' = Configured]_vars

\* initialize has rejected an existing directory that holds neither Engine
\* nor Source, in an analyzer that has both roots and a cached class.
C16_Witness ==
  /\ op.name = "initialize"
  /\ result.kind = "error"
  /\ ExistsSync(tree, op.args[1])
  /\ unrealPath # NoPath
  /\ customPath # NoPath
  /\ initialized
  /\ classCache # <<>>

\* ------------------------------------------------------------------------
\* Subsystem Analyzer: analyzeSubsystem
\* ------------------------------------------------------------------------

\* The own properties of the subsystemDirs object literal.
SubsystemDirs ==
     ("Rendering"  :> <<"Engine","Source","Runtime","RenderCore">>)
  @@ ("Physics"    :> <<"Engine","Source","Runtime","PhysicsCore">>)
  @@ ("Audio"      :> <<"Engine","Source","Runtime","AudioCore">>)
  @@ ("Networking" :> <<"Engine","Source","Runtime","Networking">>)
  @@ ("Input"      :> <<"Engine","Source","Runtime","InputCore">>)
  @@ ("AI"         :> <<"Engine","Source","Runtime","AIModule">>)
  @@ ("Animation"  :> <<"Engine","Source","Runtime","AnimationCore">>)
  @@ ("UI"         :> <<"Engine","Source","Runtime","UMG">>)

\* Names that subsystemDirs[name] finds on Object.prototype: the value is a
\* function or an object, which is truthy and is no string.
InheritedKeys ==
  {"constructor", "toString", "toLocaleString", "valueOf", "hasOwnProperty",
   "isPrototypeOf", "propertyIsEnumerable", "__proto__"}

SubsystemNames == {"Rendering", "Physics", "Bogus", "constructor"}

\* glob('**/*.{h,cpp}', {cwd, absolute: true}): no ignore list.
GlobSources(t, cwd) ==
  SelectSeq([i \in FileIds(t) |-> i],
            LAMBDA i : /\ IsPrefix(cwd, Trees[t][i].dir)
                       /\ Trees[t][i].ext \in PatternExts("*.{h,cpp}"))

\* sourceFiles.filter(f => f.endsWith('.h'))
HeaderFiles(t, files) ==
  SelectSeq(files, LAMBDA i : Trees[t][i].ext \in {"h", "generated.h"})

\* (\w+)\s*(?:final)?\s*: tried with the name at token q.
SubsystemNamedAt(toks, q) ==
  /\ IsWord(TokAt(toks, q))
  /\ \/ FirstChar(TokAt(toks, q + 1)) = ":"
     \/ TokAt(toks, q + 1) = "final" /\ FirstChar(TokAt(toks, q + 2)) = ":"

\* The index of the token captured by classPattern tried at token p, or 0:
\*   \bclass\s+(?:\w+_API\s+)?(\w+)\s*(?:final)?\s*:
ClassPatternAt(toks, p) ==
  IF TokAt(toks, p) # "class" THEN 0
  ELSE IF IsApiMacroExact(TokAt(toks, p + 1)) /\ SubsystemNamedAt(toks, p + 2)
  THEN p + 2
  ELSE IF SubsystemNamedAt(toks, p + 1) THEN p + 1
  ELSE 0

\* The exec loop: every match from token p on, the next search starting
\* behind the name of the last one.
RECURSIVE ClassPatternMatches(_, _)
ClassPatternMatches(toks, p) ==
  IF p > Len(toks) THEN <<>>
  ELSE IF ClassPatternAt(toks, p) = 0 THEN ClassPatternMatches(toks, p + 1)
  ELSE <<toks[ClassPatternAt(toks, p)]>>
       \o ClassPatternMatches(toks, ClassPatternAt(toks, p) + 1)

\* The loop over the header files; a file that cannot be read is skipped.
RECURSIVE MainClasses(_, _)
MainClasses(t, headers) ==
  IF headers = <<>> THEN <<>>
  ELSE (IF Trees[t][Head(headers)].readable
        THEN ClassPatternMatches(ContentToks(Trees[t][Head(headers)].lines), 1)
        ELSE <<>>)
       \o MainClasses(t, Tail(headers))

SubsystemInfoOf(t, subsystem, files) ==
  [name         |-> subsystem,
   mainClasses  |-> MainClasses(t, HeaderFiles(t, files)),
   keyFeatures  |-> <<>>,
   dependencies |-> <<>>,
   sourceFiles  |-> [k \in 1..Len(files) |-> PathOf(Trees[t][files[k]])] \o <<>>]

\* analyzeSubsystem(subsystem) with the engine root `unreal` and the flag
\* `init`.  subsystemDirs[subsystem] of an inherited name is no string, and
\* path.join throws a TypeError for it.
AnalyzeSubsystemRun(t, unreal, init, subsystem) ==
  IF ~init THEN Err("Analyzer not initialized", "")
  ELSE IF unreal = NoPath THEN Err("Unreal Engine path not configured", "")
  ELSE IF subsystem \in InheritedKeys
  THEN Err("TypeError: The \"path\" argument must be of type string", subsystem)
  ELSE IF subsystem \notin DOMAIN SubsystemDirs THEN Err("Unknown subsystem", subsystem)
  ELSE IF ~ExistsSync(t, PathJoin(unreal, SubsystemDirs[subsystem]))
  THEN Err("Subsystem directory not found", PathJoin(unreal, SubsystemDirs[subsystem]))
  ELSE Ok(SubsystemInfoOf(t, subsystem,
                          GlobSources(t, PathJoin(unreal, SubsystemDirs[subsystem]))))

AnalyzeSubsystem(subsystem) ==
  /\ ~Hung
  /\ result' = AnalyzeSubsystemRun(tree, unrealPath, initialized, subsystem)
  /\ op' = [name |-> "analyzeSubsystem", args |-> <<subsystem>>]
  /\ globs' = IF result'.kind = "ok"
              THEN <<PathJoin(unrealPath, SubsystemDirs[subsystem])>> ELSE <<>>
  /\ reads' = IF result'.kind = "ok"
              THEN HeaderFiles(tree, GlobSources(tree, PathJoin(unrealPath,
                                                                SubsystemDirs[subsystem])))
              ELSE <<>>
  /\ repeat' = FALSE
  /\ UNCHANGED <<pending, writes>>
  /\ UNCHANGED <<tree, unrealPath, customPath, classCache, apiCache, initialized>>

InitSubsystem ==
  /\ tree \in SubsystemTrees
  /\ unrealPath = NoPath
  /\ customPath = NoPath
  /\ classCache = <<>>
  /\ apiCache = <<>>
  /\ initialized = FALSE
  /\ op = [name |-> "new", args |-> <<>>]
  /\ result = Ok("void")
  /\ globs = <<>>
  /\ reads = <<>>
  /\ repeat = FALSE
  /\ pending = <<>>
  /\ writes = <<>>

NextSubsystem ==
  \/ \E p \in PathInputs : Initialize(p)
  \/ \E p \in PathInputs : InitializeCustomCodebase(p)
  \/ \E n \in SubsystemNames : AnalyzeSubsystem(n)

SpecSubsystem == InitSubsystem /\ [][NextSubsystem]_vars

\* C17: in an initialized analyzer analyzeSubsystem fails with "Unknown
\* subsystem" for a name outside the eight, with "Subsystem directory not
\* found" for one of the eight whose directory is missing, and in no other
\* case; a summary it returns has empty keyFeatures and dependencies.
C17_TwoFailureOutcomes ==
  (op.name = "analyzeSubsystem" /\ initialized)
    => IF op.args[1] \notin DOMAIN SubsystemDirs
       THEN result.kind = "error" /\ result.message[1] = "Unknown subsystem"
       ELSE IF unrealPath = NoPath
               \/ ~ExistsSync(tree, PathJoin(unrealPath, SubsystemDirs[op.args[1]]))
       THEN result.kind = "error" /\ result.message[1] = "Subsystem directory not found"
       ELSE /\ result.kind = "ok"
            /\ result.value.keyFeatures = <<>>
            /\ result.value.dependencies = <<>>

\* analyzeSubsystem has failed, in an analyzer with the custom root only, with
\* neither of the two outcomes.
C17_Witness ==
  /\ op.name = "analyzeSubsystem"
  /\ initialized
  /\ unrealPath = NoPath
  /\ customPath # NoPath
  /\ result.kind = "error"
  /\ result.message[1] = "Unreal Engine path not configured"

\* analyzeSubsystem has failed on a name inherited from Object.prototype, in
\* an analyzer with an engine root, with neither of the two outcomes.
InheritedNameRejected ==
  /\ op.name = "analyzeSubsystem"
  /\ unrealPath # NoPath
  /\ op.args[1] \in InheritedKeys
  /\ result.kind = "error"
  /\ result.message[1] # "Unknown subsystem"

\* The summary of Tree 4's RenderCore: the classes of the readable headers
\* under the directory, generated and Intermediate ones included.
RenderCoreSummarised ==
  /\ op.name = "analyzeSubsystem"
  /\ result.kind = "ok"
  /\ result.value.mainClasses = <<"AFoo", "AFooBar", "Foo", "AActor">>
  /\ Len(result.value.sourceFiles) = 4

\* ------------------------------------------------------------------------
\* Pattern detection: detectPatterns
\* ------------------------------------------------------------------------

\* The names of UNREAL_PATTERNS, in the order of the array.
UNREAL_PATTERNS == <<"UPROPERTY Macro", "Component Setup", "Event Binding">>

\* \s* from the 0-based index i of s: the index of the first character at or
\* after i that is not a blank.
RECURSIVE SkipBlanks(_, _)
SkipBlanks(s, i) == IF i < Len(s) /\ s[i + 1] = " " THEN SkipBlanks(s, i + 1) ELSE i

\* /UPROPERTY\s*\([^)]*\)/
UPropertyMatcher(s) ==
  \E i \in 0..Len(s) :
    /\ OccursAt(s, Chars("UPROPERTY"), i)
    /\ OccursAt(s, <<"(">>, SkipBlanks(s, i + 9))
    /\ \E k \in (SkipBlanks(s, i + 9) + 1)..(Len(s) - 1) : s[k + 1] = ")"

\* /CreateDefaultSubobject\s*<[^>]+>\s*\(/ : k is the first > after the <.
ComponentMatcher(s) ==
  \E i \in 0..Len(s) :
    /\ OccursAt(s, Chars("CreateDefaultSubobject"), i)
    /\ OccursAt(s, <<"<">>, SkipBlanks(s, i + 22))
    /\ \E k \in (SkipBlanks(s, i + 22) + 2)..(Len(s) - 1) :
         /\ s[k + 1] = ">"
         /\ \A j \in (SkipBlanks(s, i + 22) + 1)..(k - 1) : s[j + 1] # ">"
         /\ OccursAt(s, <<"(">>, SkipBlanks(s, k + 1))

\* /\.Add(Dynamic|Unique|Raw|Lambda)|BindUFunction/
EventMatcher(s) ==
  \/ \E kind \in {"Dynamic", "Unique", "Raw", "Lambda"} :
       Includes(s, Chars(".Add") \o Chars(kind))
  \/ Includes(s, Chars("BindUFunction"))

\* patternMatchers[pattern.name].test(line)
PatternMatcherTest(pattern, s) ==
  IF pattern = "UPROPERTY Macro" THEN UPropertyMatcher(s)
  ELSE IF pattern = "Component Setup" THEN ComponentMatcher(s)
  ELSE EventMatcher(s)

\* analyzePotentialImprovements(context, pattern), the suggestions by number.
AnalyzePotentialImprovements(context, pattern) ==
  IF pattern = "UPROPERTY Macro"
  THEN (IF ~Includes(context, Chars("Category")) THEN <<"category">> ELSE <<>>)
       \o (IF Includes(context, Chars("BlueprintReadWrite")) /\ ~Includes(context, Chars("Meta"))
           THEN <<"meta">> ELSE <<>>)
  ELSE IF pattern = "Component Setup"
  THEN IF ~Includes(context, Chars("RootComponent"))
          /\ Includes(context, Chars("CreateDefaultSubobject"))
       THEN <<"hierarchy">> ELSE <<>>
  ELSE IF ~Includes(LowerStr(context), Chars("beginplay"))
          /\ ~Includes(LowerStr(context), Chars("endplay"))
       THEN <<"binding">> ELSE <<>>

\* The match pushed for line i (1-based) of the file and a pattern.
PatternMatchOf(lines, filePath, pattern, i) ==
  [pattern |-> pattern,
   file    |-> filePath,
   line    |-> i,
   context |-> JoinLines(Slice(lines, Max(0, i - 3), Min(Len(lines), i + 2))),
   suggestedImprovements |->
     AnalyzePotentialImprovements(
       JoinLines(Slice(lines, Max(0, i - 3), Min(Len(lines), i + 2))), pattern)]

\* The line loop of one pattern: the matching lines, in order.
PatternMatchesOf(lines, filePath, pattern) ==
  LET hits == SelectSeq([i \in 1..Len(lines) |-> i],
                        LAMBDA i : PatternMatcherTest(pattern, lines[i]))
  IN [k \in 1..Len(hits) |-> PatternMatchOf(lines, filePath, pattern, hits[k])]

\* detectPatterns(fileContent, filePath): the lines are those of
\* fileContent.split('\n'); the patterns are taken in the order of the array.
DetectPatternsRun(lines, filePath) ==
  PatternMatchesOf(lines, filePath, UNREAL_PATTERNS[1])
  \o PatternMatchesOf(lines, filePath, UNREAL_PATTERNS[2])
  \o PatternMatchesOf(lines, filePath, UNREAL_PATTERNS[3])

\* The texts detectPatterns is given.
PatternContents ==
  { << Ln(2, <<"UPROPERTY", "(", "Category", ")">>),
       Ln(2, <<"float", "x", ";">>) >>,
    << Ln(2, <<"RootComponent", "=", "CreateDefaultSubobject", "<", "UObject", ">", "(", "x", ")", ";">>),
       Ln(2, <<"OnHit", ".AddDynamic", "(", "x", ")", ";">>),
       Ln(0, <<"UPROPERTY()">>),
       Ln(0, <<"CreateDefaultSubobject", "<", ">", "(", ")">>) >> }

DetectPatterns(content, filePath) ==
  /\ ~Hung
  /\ result' = Ok(DetectPatternsRun([i \in 1..Len(content) |-> LineText(content[i])], filePath))
  /\ op' = [name |-> "detectPatterns", args |-> <<content, filePath>>]
  /\ globs' = <<>>
  /\ reads' = <<>>
  /\ repeat' = FALSE
  /\ UNCHANGED <<tree, unrealPath, customPath, classCache, apiCache, initialized,
                 pending, writes>>

\* ------------------------------------------------------------------------
\* Every operation of the analyzer together
\* ------------------------------------------------------------------------

NextAll ==
  \/ \E p \in PathInputs : Initialize(p)
  \/ \E p \in PathInputs : InitializeCustomCodebase(p)
  \/ \E n \in ClassNames : AnalyzeClass(n)
  \/ \E n \in ClassNames : FindClassHierarchy(n, TRUE)
  \/ QueryApiReference(<<"AFoo">>,
                       [category |-> "", module |-> "",
                        hasMaxResults |-> FALSE, maxResults |-> 0])
  \/ FindReferences("AFoo")
  \/ SearchCode("AFoo", "*.h", FALSE)
  \/ AnalyzeSubsystem("Rendering")
  \/ \E content \in PatternContents : DetectPatterns(content, <<"proj", "Source", "AFoo.h">>)

SpecAll == Init /\ [][NextAll]_vars

MAX_CACHE_SIZE == 50000

\* C24: the key sets of the class cache and of the API cache only grow: no
\* operation, a change of either root included, removes a key; and an insert
\* is never refused: the class an analyzeClass call resolved is a key of the
\* class cache afterwards, and after a query every cached class is a key of
\* the API cache.
C24_CacheKeysOnlyGrow ==
  [][/\ MapKeys(classCache) \subseteq MapKeys(classCache')
     /\ MapKeys(apiCache) \subseteq MapKeys(apiCache')
     /\ (op'.name = "analyzeClass" /\ result'.kind = "ok")
          => op'.args[1] \in MapKeys(classCache')
     /\ (op'.name = "queryApiReference" /\ result'.kind = "ok")
          => MapKeys(classCache') \subseteq MapKeys(apiCache')]_vars

\* A root has been configured again while both caches hold two classes.
C24_Witness ==
  /\ op.name \in {"initialize", "initializeCustomCodebase"}
  /\ result.kind = "ok"
  /\ Cardinality(MapKeys(classCache)) = 2
  /\ MapKeys(apiCache) = MapKeys(classCache)

\* The roots in the stated order: the custom root, then the engine's
\* Engine/Source/Runtime, Engine/Source/Editor, Source/Runtime, Source and the
\* engine root, those that exist.
StatedRoots ==
  (IF customPath = NoPath THEN <<>> ELSE <<customPath>>)
  \o (IF unrealPath = NoPath THEN <<>>
      ELSE SelectSeq(<< unrealPath \o <<"Engine", "Source", "Runtime">>,
                        unrealPath \o <<"Engine", "Source", "Editor">>,
                        unrealPath \o <<"Source", "Runtime">>,
                        unrealPath \o <<"Source">>,
                        unrealPath >>,
                     LAMBDA d : ExistsSync(tree, d)))

\* The position in StatedRoots of the first root that holds a file
\* satisfying className, 0 when none does.
FirstDefining(className) ==
  MinOrZero({k \in 1..Len(StatedRoots) : RootDefines(tree, StatedRoots[k], className)})

\* C20: an analyzeClass(N) that misses the cache enumerates the roots in the
\* stated order up to and including the first one that holds a satisfying
\* file, returns a record of a file of that root, and enumerates every root
\* when none holds one.
C20_RootsInOrderUntilFound ==
  [][(/\ op'.name = "analyzeClass"
      /\ initialized
      /\ ~MapHas(classCache, op'.args[1])
      /\ StatedRoots # <<>>)
       => IF FirstDefining(op'.args[1]) = 0
          THEN result'.kind = "error" /\ globs' = StatedRoots
          ELSE /\ result'.kind = "ok"
               /\ globs' = SubSeq(StatedRoots, 1, FirstDefining(op'.args[1]))
               /\ \E i \in HeadersBelow(tree, StatedRoots[FirstDefining(op'.args[1])]) :
                    /\ Satisfies(tree, i, op'.args[1])
                    /\ result'.value = ExtractClassInfoWithRegex(Trees[tree][i], op'.args[1])]_vars

\* A miss has enumerated two roots, found the class in the second and left a
\* later root alone.
C20_Witness ==
  /\ op.name = "analyzeClass"
  /\ ~repeat
  /\ result.kind = "ok"
  /\ Len(globs) = 2
  /\ Len(StatedRoots) > 2
  /\ globs = SubSeq(StatedRoots, 1, 2)
  /\ IsPrefix(globs[2], result.value.file.dir)

\* The lines the members of a list are reported at.
LinesOf(members) == {members[k].line : k \in 1..Len(members)}

\* The lines of every method declaration and of every UPROPERTY match of the
\* extracted file.
MethodLines ==
  LinesOf(MethodsOf(op.args[1].lines, MethodLinesOf(op.args[1].lines)))

PropertyLines ==
  LinesOf(PropertiesOf(op.args[1].lines, PropertyLinesOf(op.args[1].lines)))

\* `found` lists, in source order, the first MEMBER_LIMIT of the lines `all`,
\* or every one of them when there are fewer.
FirstInSourceOrder(found, all) ==
  /\ Len(found) = Min(MEMBER_LIMIT, Cardinality(all))
  /\ \A j \in 1..Len(found) : found[j].line \in all
  /\ \A j, k \in 1..Len(found) : j < k => found[j].line < found[k].line
  /\ \A i \in all :
       (found # <<>> /\ i < found[Len(found)].line) => \E j \in 1..Len(found) : found[j].line = i

\* C19: a record has at most 100 methods and at most 100 properties, the
\* first 100 matches of each in source order.
C19_FirstHundredMembers ==
  Extracted
    => /\ Len(result.value.methods) <= 100
       /\ Len(result.value.properties) <= 100
       /\ FirstInSourceOrder(result.value.methods, MethodLines)
       /\ FirstInSourceOrder(result.value.properties, PropertyLines)

\* A header with more than 100 method declarations and more than 100
\* UPROPERTY declarations has been extracted.
C19_Witness ==
  /\ Extracted
  /\ Cardinality(MethodLines) > 100
  /\ Cardinality(PropertyLines) > 100
  /\ Len(result.value.methods) = 100
  /\ Len(result.value.properties) = 100

\* Line i of a file begins a definition of exactly className: the existence
\* pattern matches from a class keyword of that line.
ExactDefinitionAt(lines, toks, className, i) ==
  \E p \in 1..Len(lines[i].toks) :
    /\ EqCI(toks[p], "class")
    /\ \/ NamedAt(toks, className, p + 1)
       \/ IsApiMacro(TokAt(toks, p + 1)) /\ NamedAt(toks, className, p + 2)

FirstExactDefinition(lines, className) ==
  MinOrZero({i \in 1..Len(lines) :
               /\ \E p \in 1..Len(lines[i].toks) : EqCI(lines[i].toks[p], "class")
               /\ ExactDefinitionAt(lines, ContentToks(SubSeq(lines, i, Len(lines))),
                                    className, i)})

\* C21: the record of a file that passes the existence pattern for N has the
\* line and the inheritance lists of the first line of the file that is a
\* definition of exactly N; an earlier forward declaration of N, or an
\* earlier definition of a class whose name begins with N, is not taken.
C21_FirstExactDefinitionLine ==
  (Extracted /\ ClassDefPatternTest(op.args[1], op.args[2]))
    => /\ result.value.line = FirstExactDefinition(op.args[1].lines, op.args[2])
       /\ result.value
            = ExtractAtLine(op.args[1], op.args[2],
                            FirstExactDefinition(op.args[1].lines, op.args[2]))

\* The record of a header that declares AFoo forward on line 1 and defines it
\* on line 3 names line 1 and has no base.
C21_Witness ==
  /\ Extracted
  /\ op.args[1].lines[1].toks = <<"class", "AFoo", ";">>
  /\ ClassDefPatternTest(op.args[1], "AFoo")
  /\ FirstExactDefinition(op.args[1].lines, "AFoo") = 3
  /\ result.value.line = 1
  /\ result.value.superclasses = <<>>
  /\ result.value.interfaces = <<>>

\* ------------------------------------------------------------------------
\* Properties of the hierarchy
\* ------------------------------------------------------------------------

\* The depth of a returned tree: the number of edges of its longest branch.
RECURSIVE DepthOf(_)
DepthOf(node) ==
  IF node.superclasses = <<>> THEN 0
  ELSE 1 + CHOOSE d \in {DepthOf(node.superclasses[k]) : k \in 1..Len(node.superclasses)} :
             \A k \in 1..Len(node.superclasses) : DepthOf(node.superclasses[k]) <= d

\* The length of the longest chain of superclass names that starts at n and
\* follows the cached records (for a class that is not Cyclic).
RECURSIVE LongestChain(_)
LongestChain(n) ==
  IF CachedSupers(n) = {} THEN 0
  ELSE 1 + CHOOSE d \in {LongestChain(m) : m \in CachedSupers(n)} :
             \A m \in CachedSupers(n) : LongestChain(m) <= d

\* C22: findClassHierarchy(N) returns (a tree or the error of N) exactly when
\* no class reachable from N through the resolved superclasses is its own
\* ancestor; the tree it returns is as deep as the longest superclass chain
\* from N; on a cycle the call never returns.
C22_TerminatesIffAcyclic ==
  op.name = "findClassHierarchy" =>
    /\ result.kind \in {"ok", "error"} <=> ~Cyclic(op.args[1])
    /\ Cyclic(op.args[1]) => Hung
    /\ result.kind = "ok" => DepthOf(result.value) = LongestChain(op.args[1])

\* A tree two levels deep has been returned.
C22_Witness ==
  /\ op.name = "findClassHierarchy"
  /\ result.kind = "ok"
  /\ ~Cyclic(op.args[1])
  /\ DepthOf(result.value) = 2
  /\ LongestChain(op.args[1]) = 2

\* A call on a class of a superclass cycle has not returned.
CycleNeverReturns ==
  /\ op.name = "findClassHierarchy"
  /\ Cyclic(op.args[1])
  /\ Hung

\* A node of a returned tree against the cached record of its class: one
\* child per superclass name, in order, and the interfaces the flag asks for;
\* a class without a record is a bare leaf.
RECURSIVE NodeFollowsRecord(_, _)
NodeFollowsRecord(node, includeInterfaces) ==
  IF MapHas(classCache, node.className)
  THEN /\ [k \in 1..Len(node.superclasses) |-> node.superclasses[k].className]
            = MapGet(classCache, node.className).superclasses
       /\ node.interfaces = IF includeInterfaces
                            THEN MapGet(classCache, node.className).interfaces
                            ELSE <<>>
       /\ \A k \in 1..Len(node.superclasses) :
            NodeFollowsRecord(node.superclasses[k], includeInterfaces)
  ELSE node.superclasses = <<>> /\ node.interfaces = <<>>

\* The nodes of a tree, as a set.
RECURSIVE NodesOf(_)
NodesOf(node) ==
  {node} \cup UNION {NodesOf(node.superclasses[k]) : k \in 1..Len(node.superclasses)}

\* C23: in a tree findClassHierarchy(N, includeInterfaces) returns, every
\* resolved node has one child per superclass name of its record, in order,
\* and the record's interfaces when includeInterfaces is true; when it is
\* false no node of the tree, at any depth, has an interface.
C23_ChildrenAndInterfacesPerRecord ==
  (op.name = "findClassHierarchy" /\ result.kind = "ok") =>
    /\ NodeFollowsRecord(result.value, op.args[2])
    /\ ~op.args[2] => \A node \in NodesOf(result.value) : node.interfaces = <<>>

\* A tree has been returned with the interfaces of a class that has some and
\* with two levels of children.
C23_Witness ==
  /\ op.name = "findClassHierarchy"
  /\ result.kind = "ok"
  /\ op.args[2]
  /\ result.value.interfaces # <<>>
  /\ \E k \in 1..Len(result.value.superclasses) :
       result.value.superclasses[k].superclasses # <<>>

\* A tree has been returned without interfaces for a class whose record has
\* some.
InterfacesLeftOut ==
  /\ op.name = "findClassHierarchy"
  /\ result.kind = "ok"
  /\ ~op.args[2]
  /\ \E node \in NodesOf(result.value) :
       /\ MapHas(classCache, node.className)
       /\ MapGet(classCache, node.className).interfaces # <<>>

\* ------------------------------------------------------------------------
\* Overlapping calls
\* ------------------------------------------------------------------------

\* Requests are dispatched as they arrive and analyzeClass awaits one glob per
\* search path, so a call runs from one await to the next while other calls
\* are suspended; initialize, initializeCustomCodebase and queryApiReference
\* have no await.

\* The number of analyzeClass calls in flight at a time.
MaxInFlight == 2
ConcurrentClasses == {"AFoo", "AActor"}

\* A call that is waiting for a glob.
Suspended == [kind |-> "suspended"]

\* pending without its call number i.
WithoutCall(i) == SubSeq(pending, 1, i - 1) \o SubSeq(pending, i + 1, Len(pending))

\* analyzeClass(className) from its entry to its first await: the guard, the
\* cache lookup and the list of search paths, taken from the roots of now.
BeginAnalyzeClass(className) ==
  /\ ~Hung
  /\ Len(pending) < MaxInFlight
  /\ IF ~initialized
     THEN result' = Err("Analyzer not initialized", "") /\ pending' = pending
     ELSE IF MapHas(classCache, className)
     THEN result' = Ok(MapGet(classCache, className)) /\ pending' = pending
     ELSE IF ClassSearchPaths(tree, customPath, unrealPath) = <<>>
     THEN result' = Err("No valid search path configured", "") /\ pending' = pending
     ELSE /\ result' = Suspended
          /\ pending' = Append(pending,
                               [className |-> className,
                                paths |-> ClassSearchPaths(tree, customPath, unrealPath)])
  /\ op' = [name |-> "analyzeClass", args |-> <<className>>]
  /\ globs' = <<>>
  /\ reads' = <<>>
  /\ repeat' = FALSE
  /\ UNCHANGED <<tree, unrealPath, customPath, classCache, apiCache, initialized, writes>>

\* The suspended call number i from the return of its glob to its next await
\* or its end: the files of the path are scanned, a class found is cached and
\* returned, and after the last path the call throws.
ResumeAnalyzeClass(i) ==
  /\ ~Hung
  /\ LET call == pending[i]
         s == ScanFiles(tree, Glob(tree, Head(call.paths), "*.h", TRUE), call.className)
     IN /\ globs' = <<Head(call.paths)>>
        /\ reads' = s.reads
        /\ op' = [name |-> "analyzeClass", args |-> <<call.className>>]
        /\ IF s.info # NullInfo
           THEN /\ classCache' = MapSet(classCache, call.className, s.info)
                /\ writes' = Append(writes, [key |-> call.className, value |-> s.info])
                /\ result' = Ok(s.info)
                /\ pending' = WithoutCall(i)
           ELSE IF Tail(call.paths) = <<>>
           THEN /\ result' = Err("Class not found: ", call.className)
                /\ pending' = WithoutCall(i)
                /\ UNCHANGED <<classCache, writes>>
           ELSE /\ result' = Suspended
                /\ pending' = [pending EXCEPT ![i].paths = Tail(@)]
                /\ UNCHANGED <<classCache, writes>>
  /\ repeat' = FALSE
  /\ UNCHANGED <<tree, unrealPath, customPath, apiCache, initialized>>

NextConcurrent ==
  \/ Initialize(<<"ue">>)
  \/ InitializeCustomCodebase(<<"proj">>)
  \/ \E n \in ConcurrentClasses : BeginAnalyzeClass(n)
  \/ \E i \in 1..Len(pending) : ResumeAnalyzeClass(i)
  \/ QueryApiReference(<<"AFoo">>,
                       [category |-> "", module |-> "",
                        hasMaxResults |-> FALSE, maxResults |-> 0])

InitConcurrent == Init /\ tree = 1

SpecConcurrent == InitConcurrent /\ [][NextConcurrent]_vars

\* C25: the class cache has no concurrent writers: whatever the interleaving
\* of the calls in flight, at most one classCache.set is made per class name.
C25_OneWritePerClass ==
  \A i, j \in 1..Len(writes) : writes[i].key = writes[j].key => i = j

\* Two overlapping analyzeClass calls for one class, begun on either side of
\* a change of root, have both written the cache, the later write replacing
\* the record of the earlier one by the record of another file.
C25_Witness ==
  \E i, j \in 1..Len(writes) :
    /\ i < j
    /\ writes[i].key = writes[j].key
    /\ writes[i].value # writes[j].value
    /\ MapGet(classCache, writes[j].key) = writes[j].value

\* Two overlapping analyzeClass calls for one class under the same roots have
\* both written the cache.
WrittenTwice ==
  \E i, j \in 1..Len(writes) :
    /\ i < j
    /\ writes[i] = writes[j]

\* The operations that need a configured root.
GuardedOperations ==
  {"analyzeClass", "findClassHierarchy", "findReferences", "searchCode",
   "queryApiReference", "analyzeSubsystem"}

\* C26: while no root has been configured, analyzeClass, findClassHierarchy,
\* findReferences, searchCode, queryApiReference and analyzeSubsystem throw
\* 'Analyzer not initialized', enumerate and read nothing and leave the roots,
\* the flag and both caches as they were; detectPatterns returns its matches
\* whether or not a root is configured.
C26_GuardedUntilConfigured ==
  [][/\ (~initialized /\ op'.name \in GuardedOperations) =>
          /\ result' = Err("Analyzer not initialized", "")
          /\ globs' = <<>> /\ reads' = <<>>
          /\ UNCHANGED <<unrealPath, customPath, initialized, classCache, apiCache>>
     /\ op'.name = "detectPatterns" =>
          /\ result' = Ok(DetectPatternsRun(
                            [i \in 1..Len(op'.args[1]) |-> LineText(op'.args[1][i])],
                            op'.args[2]))
          /\ UNCHANGED <<unrealPath, customPath, initialized, classCache, apiCache>>]_vars

\* Without a root, detectPatterns has returned the matches of a text that
\* holds the three patterns.
C26_Witness ==
  /\ ~initialized
  /\ unrealPath = NoPath /\ customPath = NoPath
  /\ op.name = "detectPatterns"
  /\ result.kind = "ok"
  /\ {result.value[k].pattern : k \in 1..Len(result.value)}
       = {"UPROPERTY Macro", "Component Setup", "Event Binding"}

\* Without a root, an operation that needs one has been refused.
RefusedWithoutRoot ==
  /\ ~initialized
  /\ op.name \in GuardedOperations
  /\ result = Err("Analyzer not initialized", "")

\* The second text has been matched: line 3 for the property macro, lines 1
\* and 4 for the component setup and line 2 for the event binding.
PatternLinesInArrayOrder ==
  /\ op.name = "detectPatterns"
  /\ Len(op.args[1]) = 4
  /\ [k \in 1..Len(result.value) |-> result.value[k].line] = <<3, 1, 4, 2>>
  /\ result.value[2].suggestedImprovements = <<>>
  /\ result.value[3].suggestedImprovements = <<"hierarchy">>
  /\ result.value[4].suggestedImprovements = <<"binding">>

\* ------------------------------------------------------------------------
\* The API query with filters
\* ------------------------------------------------------------------------

FilterQueries == {<<"o">>, <<"actor", "core">>}
FilterOptions ==
  {[category |-> c, module |-> m, hasMaxResults |-> FALSE, maxResults |-> 0] :
     c \in {"", "Actor"}, m \in {"", "Engine"}}

NextFilter ==
  \/ \E p \in PathInputs : Initialize(p)
  \/ \E p \in PathInputs : InitializeCustomCodebase(p)
  \/ \E n \in ClassNames : AnalyzeClass(n)
  \/ \E q \in FilterQueries, o \in FilterOptions : QueryApiReference(q, o)

InitFilter ==
  /\ tree \in FilterTrees
  /\ unrealPath = NoPath
  /\ customPath = NoPath
  /\ classCache = <<>>
  /\ apiCache = <<>>
  /\ initialized = FALSE
  /\ op = [name |-> "new", args |-> <<>>]
  /\ result = Ok("void")
  /\ globs = <<>>
  /\ reads = <<>>
  /\ repeat = FALSE
  /\ pending = <<>>
  /\ writes = <<>>

SpecFilter == InitFilter /\ [][NextFilter]_vars

\* The position of the class n in the class cache (its insertion order).
InsertionIndex(n) == CHOOSE i \in 1..Len(classCache) : classCache[i].key = n

\* C27: every result of queryApiReference has a relevance above 0, has the
\* category of the options when one is given and the module of the options
\* when one is given, and the results are in non-increasing relevance, those
\* of equal relevance in the insertion order of the class cache.
C27_FilteredAndOrdered ==
  (op.name = "queryApiReference" /\ result.kind = "ok") =>
    /\ \A j \in 1..Len(result.value) :
         /\ result.value[j].relevance > 0
         /\ op.args[2].category # "" =>
              result.value[j].reference.category = op.args[2].category
         /\ op.args[2].module # "" =>
              result.value[j].reference.module = op.args[2].module
    /\ \A j, k \in 1..Len(result.value) :
         j < k =>
           /\ result.value[j].relevance >= result.value[k].relevance
           /\ result.value[j].relevance = result.value[k].relevance =>
                InsertionIndex(result.value[j].reference.className)
                  < InsertionIndex(result.value[k].reference.className)

\* A query with both filters has returned an entry and left out two cached
\* classes that score above 0, one of another category and one of another
\* module.
C27_Witness ==
  /\ op.name = "queryApiReference"
  /\ result.kind = "ok"
  /\ op.args[2].category # "" /\ op.args[2].module # ""
  /\ result.value # <<>>
  /\ \E n, m \in MapKeys(apiCache) :
       /\ MapGet(apiCache, n).category # op.args[2].category
       /\ MapGet(apiCache, m).category = op.args[2].category
       /\ MapGet(apiCache, m).module # op.args[2].module
       /\ CalculateApiRelevance(MapGet(apiCache, n), SearchTerms(op.args[1])) > 0
       /\ CalculateApiRelevance(MapGet(apiCache, m), SearchTerms(op.args[1])) > 0

\* Two entries of equal relevance have been returned.
EqualRelevanceReturned ==
  /\ op.name = "queryApiReference"
  /\ result.kind = "ok"
  /\ \E j, k \in 1..Len(result.value) :
       j < k /\ result.value[j].relevance = result.value[k].relevance

\* Two entries of different relevance have been returned, the one cached
\* later first.
LaterCachedFirst ==
  /\ op.name = "queryApiReference"
  /\ result.kind = "ok"
  /\ \E j, k \in 1..Len(result.value) :
       /\ j < k
       /\ result.value[j].relevance > result.value[k].relevance
       /\ InsertionIndex(result.value[j].reference.className)
            > InsertionIndex(result.value[k].reference.className)

\* A query with the module filter alone has left out a cached class of
\* another module whose entry scores above 0.
OtherModuleLeftOut ==
  /\ op.name = "queryApiReference"
  /\ result.kind = "ok"
  /\ op.args[2].category = "" /\ op.args[2].module # ""
  /\ \E n \in MapKeys(apiCache) :
       /\ MapGet(apiCache, n).module # op.args[2].module
       /\ CalculateApiRelevance(MapGet(apiCache, n), SearchTerms(op.args[1])) > 0

\* A query with the category filter has left out a cached class of another
\* category whose entry scores above 0.
OtherCategoryLeftOut ==
  /\ op.name = "queryApiReference"
  /\ result.kind = "ok"
  /\ op.args[2].category # ""
  /\ \E n \in MapKeys(apiCache) :
       /\ MapGet(apiCache, n).category # op.args[2].category
       /\ CalculateApiRelevance(MapGet(apiCache, n), SearchTerms(op.args[1])) > 0

\* ------------------------------------------------------------------------
\* Properties of the configuration
\* ------------------------------------------------------------------------

\* The flag says that a root is set.
FlagIsSomeRoot == initialized <=> (unrealPath # NoPath \/ customPath # NoPath)

\* C28: in every state initialized is true exactly when the custom root or
\* the engine root is set; no step makes it false again; and a root that is
\* set changes only in a successful call that configures it, to the path of
\* that call, never back to unset.
C28_InitializedIffSomeRoot ==
  [][/\ FlagIsSomeRoot /\ FlagIsSomeRoot'
     /\ initialized => initialized'
     /\ unrealPath' # unrealPath =>
          /\ op'.name = "initialize" /\ result'.kind = "ok"
          /\ unrealPath' = op'.args[1]
     /\ customPath' # customPath =>
          /\ op'.name = "initializeCustomCodebase" /\ result'.kind = "ok"
          /\ customPath' = op'.args[1]
     /\ unrealPath # NoPath => unrealPath' # NoPath
     /\ customPath # NoPath => customPath' # NoPath]_vars

\* Both roots are set, the custom root by the last call, and a class resolved
\* under earlier roots is cached.
C28_Witness ==
  /\ initialized
  /\ unrealPath = <<"proj">>
  /\ customPath = <<"ue">>
  /\ op.name = "initializeCustomCodebase"
  /\ result.kind = "ok"
  /\ classCache # <<>>

\* ------------------------------------------------------------------------
\* Properties of the two caches together
\* ------------------------------------------------------------------------

\* C29: in every state the keys of the API cache are keys of the class cache,
\* and each entry of the API cache is the entry getOrCreateApiReference
\* builds from the record the class cache holds under the same name.
C29_ApiEntryOfCachedRecord ==
  /\ MapKeys(apiCache) \subseteq MapKeys(classCache)
  /\ \A i \in 1..Len(apiCache) :
       MapHas(classCache, apiCache[i].key) =>
         apiCache[i].value = ApiReferenceOf(MapGet(classCache, apiCache[i].key))

\* The API cache holds for a class an entry whose related classes are not
\* the superclasses and interfaces of the record cached for the class.
C29_Witness ==
  \E i \in 1..Len(apiCache) :
    /\ MapHas(classCache, apiCache[i].key)
    /\ apiCache[i].value.relatedClasses
         # MapGet(classCache, apiCache[i].key).superclasses
             \o MapGet(classCache, apiCache[i].key).interfaces

\* The API cache holds the entries of two classes.
TwoEntriesSynthesised ==
  /\ Len(apiCache) >= 2
  /\ op.name = "queryApiReference"

\* C30: in every state each entry of the class cache has the name of its
\* record as its key, one entry per name; and in a tree findClassHierarchy
\* has returned, the class of every node that resolved (a node with children
\* or interfaces, or a leaf whose class analyzeClass resolves) is a key of
\* the class cache.
C30_KeyedByNameAndTreeCached ==
  /\ \A i, j \in 1..Len(classCache) :
       /\ classCache[i].value.name = classCache[i].key
       /\ classCache[i].key = classCache[j].key => i = j
  /\ (op.name = "findClassHierarchy" /\ result.kind = "ok") =>
       \A node \in NodesOf(result.value) :
         (\/ node # Leaf(node.className)
          \/ AnalyzeClassRun(Analyzer, node.className).result.kind = "ok")
           => MapHas(classCache, node.className)

\* A tree with two resolved classes and a fallback leaf has been returned,
\* and the class cache holds exactly the two.
C30_Witness ==
  /\ op.name = "findClassHierarchy"
  /\ result.kind = "ok"
  /\ Cardinality(MapKeys(classCache)) = 2
  /\ {node.className : node \in NodesOf(result.value)} \ MapKeys(classCache) # {}
  /\ MapKeys(classCache) \subseteq {node.className : node \in NodesOf(result.value)}

====
